---- MODULE Spec2Model ----
(***************************************************************************)
(* Model of the web metadata core of expo-video-metadata: the container    *)
(* dispatcher, the MP4 / WebM / TS parsers, the HDR detector and the       *)
(* result assembly of getVideoInfo.                                        *)
(*                                                                         *)
(* Files are sequences of bytes (0..255).  A JavaScript index is 0-based;  *)
(* reading past the end of a Uint8Array yields `undefined`, modelled by    *)
(* Undef.  Every call of the library is independent of the others, so the  *)
(* state machine holds one call: its operation, its argument and what it   *)
(* returned or threw.                                                      *)
(***************************************************************************)
EXTENDS Integers, Sequences, FiniteSets, TLC

\* pc: idle or done; op: the operation called; input: what the file holds;
\* arg: the argument; ret: what the call returned or threw; detected and ran:
\* the container the dispatcher detected and the parser it constructed
VARIABLES pc, op, input, arg, ret, detected, ran

vars == <<pc, op, input, arg, ret, detected, ran>>

-----------------------------------------------------------------------------
(* JavaScript values *)

\* null / undefined of an optional field
Null == "<null>"

\* data[i] of a Uint8Array when i is out of range (undefined)
Undef == 0 - 1

\* data[i], 0-based
At(data, i) == IF i >= 0 /\ i < Len(data) THEN data[i + 1] ELSE Undef

\* a byte used in a bitwise expression: undefined converts to 0
Bits(b) == IF b = Undef THEN 0 ELSE b

\* an index of slice / subarray: negative counts from the end, then clamped
NormIdx(i, len) ==
    IF i < 0 THEN (IF len + i < 0 THEN 0 ELSE len + i)
    ELSE IF i > len THEN len ELSE i

\* data.slice(from, to) / data.subarray(from, to), 0-based
Slice(data, from, to) ==
    LET f == NormIdx(from, Len(data))
        t == NormIdx(to, Len(data))
    IN IF t <= f THEN <<>> ELSE SubSeq(data, f + 1, t)

\* data.slice(from) / data.subarray(from)
SliceFrom(data, from) == Slice(data, from, Len(data))

\* (b0 << 24) | (b1 << 16) | (b2 << 8) | b3 : a signed 32-bit integer
Int32Of(b0, b1, b2, b3) ==
    LET h == IF Bits(b0) >= 128 THEN Bits(b0) - 256 ELSE Bits(b0)
    IN h * 16777216 + Bits(b1) * 65536 + Bits(b2) * 256 + Bits(b3)

\* the 32-bit big-endian word at data[off..off+3], as the code assembles it
WordAt(data, off) ==
    Int32Of(At(data, off), At(data, off + 1), At(data, off + 2), At(data, off + 3))

\* new TextDecoder().decode(bytes) === text, for an ASCII text given by its bytes
\* (a byte >= 0x80 decodes to U+FFFD or a multi-byte character, never to ASCII)
DecodesTo(bytes, text) == bytes = text

\* decoded.includes(text), for a slice no longer than text
Includes(bytes, text) ==
    \E i \in 0..(Len(bytes) - Len(text)) : Slice(bytes, i, i + Len(text)) = text

\* Math.round(n / d) for d # 0: the nearest integer, halves towards +infinity
RoundHalfUp(n, d) == (n \div d) + (IF (n % d) >= d - (n % d) THEN 1 ELSE 0)

RoundDiv(n, d) == IF d > 0 THEN RoundHalfUp(n, d) ELSE RoundHalfUp(0 - n, 0 - d)

\* Numbers beyond +-Huge stand for themselves clamped: the box walks compare a
\* size only with offsets and lengths of the input, which are far below it.
Huge == 1073741824

Clamp(n) == IF n > Huge THEN Huge ELSE IF n < 0 - Huge THEN 0 - Huge ELSE n

\* high * 2 ** 32 + low, for two signed 32-bit words, clamped
Size64(high, low) ==
    IF high = 0 THEN Clamp(low) ELSE IF high > 0 THEN Huge ELSE 0 - Huge

\* A JavaScript number kept exact: (hi * 2 ** bits + lo) / den with |lo| below
\* 2 ** bits.  den = 0 gives +-Infinity, or NaN when the numerator is 0.
\* Num joins two signed 32-bit words, Ticks the parts of a 33-bit clock value.
Num(hi, lo, den) == [hi |-> hi, lo |-> lo, den |-> den, bits |-> 32]

Ticks(hi, lo, den) == [hi |-> hi, lo |-> lo, den |-> den, bits |-> 25]

Sgn(n) == IF n > 0 THEN 1 ELSE IF n < 0 THEN 0 - 1 ELSE 0

NumeratorSign(x) == IF x.hi # 0 THEN Sgn(x.hi) ELSE Sgn(x.lo)

IsFiniteNum(x) == x.den # 0

\* x >= 0 for a finite x
IsNonNegative(x) == NumeratorSign(x) = 0 \/ NumeratorSign(x) = Sgn(x.den)

\* a number in a condition: 0 and NaN are false
Truthy(x) == NumeratorSign(x) # 0

\* x < 2 ** 53 for a finite x >= 0: floor(numerator / 2 ** 32) < |den| * 2 ** 21;
\* a numerator of Ticks is below 2 ** 34
Below2Pow53(x) ==
    LET q == IF NumeratorSign(x) > 0
                THEN (IF x.lo < 0 THEN x.hi - 1 ELSE x.hi)
                ELSE (IF x.lo > 0 THEN (0 - x.hi) - 1 ELSE 0 - x.hi)
        d == IF x.den < 0 THEN 0 - x.den ELSE x.den
    IN x.bits = 25 \/ NumeratorSign(x) = 0 \/ (q \div 2097152) < d

\* A rate in bits per second: an integer, or Math.floor / Math.round of
\* bits / seconds with the quotient kept as its two terms; NoRate is undefined.
Exactly(n) == [rounding |-> "none", bits |-> n]

Quotient(rounding, bits, seconds) ==
    [rounding |-> rounding, bits |-> bits, seconds |-> seconds]

NoRate == [rounding |-> "undefined"]

-----------------------------------------------------------------------------
(* HdrDetector (hdr-detector.ts) *)

getDefaultColorInfo ==
    [matrixCoefficients |-> Null, transferCharacteristics |-> Null,
     primaries |-> Null, fullRange |-> Null]

\* isHdr with its HLG test on the transfer characteristics alone, the
\* primaries left unread
isHdr_transferOnly(colorInfo) ==
    \/ /\ colorInfo.primaries = "bt2020"
       /\ colorInfo.transferCharacteristics = "smpte2084"
       /\ colorInfo.matrixCoefficients \in {"bt2020nc", "bt2020c", "ictcp"}
    \/ colorInfo.transferCharacteristics \in {"hlg", "arib-std-b67"}
    \/ /\ colorInfo.transferCharacteristics = "smpte2084"
       /\ colorInfo.matrixCoefficients = "ictcp"

isHdr(colorInfo) ==
    LET isHdr10 ==
            /\ colorInfo.primaries = "bt2020"
            /\ colorInfo.transferCharacteristics = "smpte2084"
            /\ \/ colorInfo.matrixCoefficients = "bt2020nc"
               \/ colorInfo.matrixCoefficients = "bt2020c"
               \/ colorInfo.matrixCoefficients = "ictcp"
        isHlg ==
            /\ colorInfo.primaries = "bt2020"
            /\ \/ colorInfo.transferCharacteristics = "hlg"
               \/ colorInfo.transferCharacteristics = "arib-std-b67"
        isDolbyVision ==
            /\ colorInfo.transferCharacteristics = "smpte2084"
            /\ colorInfo.matrixCoefficients = "ictcp"
    IN isHdr10 \/ isHlg \/ isDolbyVision

\* (value & bit) !== 0 for a one-bit mask
HasBit(value, bit) == (Bits(value) \div bit) % 2 = 1

hdr10ColorInfo ==
    [matrixCoefficients |-> "bt2020nc", transferCharacteristics |-> "smpte2084",
     primaries |-> "bt2020", fullRange |-> "true"]

mapMatrixCoefficients(value) ==
    CASE value = 0 -> "rgb" [] value = 1 -> "bt709" [] value = 2 -> "unspecified"
      [] value = 4 -> "fcc" [] value = 5 -> "bt470bg" [] value = 6 -> "bt601"
      [] value = 7 -> "smpte240m" [] value = 8 -> "ycgco" [] value = 9 -> "bt2020nc"
      [] value = 10 -> "bt2020c" [] value = 11 -> "smpte2085"
      [] value = 12 -> "chroma-derived-nc" [] value = 13 -> "chroma-derived-c"
      [] value = 14 -> "ictcp" [] OTHER -> Null

mapTransferCharacteristics(value) ==
    CASE value = 0 -> Null [] value = 1 -> "bt709" [] value = 2 -> "unspecified"
      [] value = 4 -> "gamma22" [] value = 5 -> "gamma28" [] value = 6 -> "bt601"
      [] value = 7 -> "smpte240m" [] value = 8 -> "linear" [] value = 9 -> "log100"
      [] value = 10 -> "log316" [] value = 11 -> "xvycc" [] value = 12 -> "bt1361"
      [] value = 13 -> "srgb" [] value = 14 -> "bt2020-10" [] value = 15 -> "bt2020-12"
      [] value = 16 -> "smpte2084" [] value = 17 -> "smpte428" [] value = 18 -> "hlg"
      [] value = 19 -> "arib-std-b67" [] OTHER -> Null

mapColorPrimaries(value) ==
    CASE value = 0 -> Null [] value = 1 -> "bt709" [] value = 2 -> "unspecified"
      [] value = 4 -> "bt470m" [] value = 5 -> "bt470bg" [] value = 6 -> "bt601"
      [] value = 7 -> "smpte240m" [] value = 8 -> "film" [] value = 9 -> "bt2020"
      [] value = 10 -> "smpte428" [] value = 11 -> "smpte431" [] value = 12 -> "smpte432"
      [] value = 22 -> "jedec-p22" [] OTHER -> Null

\* readUint16 at a position the reader may read
Uint16At(data, off) == Bits(At(data, off)) * 256 + Bits(At(data, off + 1))

\* The config parsers are handed a reader still at offset 0.
parseHEVCConfig(data) ==
    IF Len(data) < 9 THEN getDefaultColorInfo
    ELSE IF At(data, 1) % 32 = 2 \/ HasBit(At(data, 3), 64) THEN hdr10ColorInfo
    ELSE getDefaultColorInfo

parseAVCConfig(data) ==
    LET profileIdc == At(data, 1)
    IN IF Len(data) < 4 THEN getDefaultColorInfo
       ELSE IF profileIdc \in {110, 122}
            THEN [matrixCoefficients |-> "bt2020nc",
                  transferCharacteristics |-> "bt2100-pq",
                  primaries |-> "bt2020", fullRange |-> "true"]
       ELSE IF profileIdc \in {100, 118, 44}
            THEN [matrixCoefficients |-> "bt709", transferCharacteristics |-> "bt709",
                  primaries |-> "bt709", fullRange |-> "false"]
       ELSE IF profileIdc \in {66, 77, 82, 88}
            THEN [matrixCoefficients |-> "bt601", transferCharacteristics |-> "bt601",
                  primaries |-> "bt601", fullRange |-> "false"]
       ELSE getDefaultColorInfo

parseAV1Config(data) ==
    LET profile == (At(data, 2) \div 32) % 8
        hasHDR == HasBit(At(data, 3), 4)
        highBitDepth == HasBit(At(data, 3), 2)
    IN IF Len(data) < 4 THEN getDefaultColorInfo
       ELSE IF hasHDR \/ (profile >= 2 /\ highBitDepth) THEN hdr10ColorInfo
       ELSE getDefaultColorInfo

parseVP9Config(data) ==
    LET profile == At(data, 0)
        bitDepth == At(data, 2)
        hasHDR == (profile >= 2 /\ bitDepth >= 10) \/ HasBit(At(data, 3), 4)
    IN IF Len(data) < 4 THEN getDefaultColorInfo
       ELSE IF hasHDR THEN hdr10ColorInfo
       ELSE [matrixCoefficients |-> "bt709", transferCharacteristics |-> "bt709",
             primaries |-> "bt709", fullRange |-> "false"]

\* The box parsers are handed a reader that has read the 4-byte colour type.
parseDolbyVision(data) ==
    IF Len(data) < 9 THEN getDefaultColorInfo
    ELSE [matrixCoefficients |-> "ictcp",
          transferCharacteristics |-> IF At(data, 4) <= 7 THEN "smpte2084" ELSE "bt1361",
          primaries |-> "bt2020", fullRange |-> "true"]

parseMasteringDisplayColorVolume(data) ==
    IF Len(data) < 44 THEN getDefaultColorInfo
    ELSE IF WordAt(data, 36) > 1000000 THEN hdr10ColorInfo
    ELSE getDefaultColorInfo

parseContentLightLevel(data) ==
    IF Len(data) < 8 THEN getDefaultColorInfo
    ELSE IF Uint16At(data, 4) > 1000 THEN hdr10ColorInfo
    ELSE getDefaultColorInfo


\* the four-character codes the parsers compare box types with, as their bytes
FourCC ==
    [nclx |-> <<110, 99, 108, 120>>,
     nclc |-> <<110, 99, 108, 99>>,
     mdcv |-> <<109, 100, 99, 118>>,
     clli |-> <<99, 108, 108, 105>>,
     dovi |-> <<100, 111, 118, 105>>,
     rICC |-> <<114, 73, 67, 67>>,
     prof |-> <<112, 114, 111, 102>>,
     moov |-> <<109, 111, 111, 118>>,
     trak |-> <<116, 114, 97, 107>>,
     mdia |-> <<109, 100, 105, 97>>,
     hdlr |-> <<104, 100, 108, 114>>,
     mdhd |-> <<109, 100, 104, 100>>,
     minf |-> <<109, 105, 110, 102>>,
     stbl |-> <<115, 116, 98, 108>>,
     stsd |-> <<115, 116, 115, 100>>,
     stts |-> <<115, 116, 116, 115>>,
     tkhd |-> <<116, 107, 104, 100>>,
     mvex |-> <<109, 118, 101, 120>>,
     trex |-> <<116, 114, 101, 120>>,
     moof |-> <<109, 111, 111, 102>>,
     avc1 |-> <<97, 118, 99, 49>>,
     hev1 |-> <<104, 101, 118, 49>>,
     hvc1 |-> <<104, 118, 99, 49>>,
     mp4v |-> <<109, 112, 52, 118>>,
     vp08 |-> <<118, 112, 48, 56>>,
     vp09 |-> <<118, 112, 48, 57>>,
     av01 |-> <<97, 118, 48, 49>>,
     mp4a |-> <<109, 112, 52, 97>>,
     avcC |-> <<97, 118, 99, 67>>,
     hvcC |-> <<104, 118, 99, 67>>,
     pasp |-> <<112, 97, 115, 112>>,
     btrt |-> <<98, 116, 114, 116>>,
     colr |-> <<99, 111, 108, 114>>,
     dvcC |-> <<100, 118, 99, 67>>,
     dvvC |-> <<100, 118, 118, 67>>,
     vpcC |-> <<118, 112, 99, 67>>,
     av1C |-> <<97, 118, 49, 67>>,
     vide |-> <<118, 105, 100, 101>>,
     soun |-> <<115, 111, 117, 110>>,
     clap |-> <<99, 108, 97, 112>>,
     tapt |-> <<116, 97, 112, 116>>,
     clef |-> <<99, 108, 101, 102>>]

parseMP4ColorInfo(data) ==
    LET colourType == Slice(data, 0, 4)
        isConfig == At(data, 0) = 1
    IN IF isConfig /\ At(data, 1) = 34 THEN parseHEVCConfig(data)
       ELSE IF isConfig /\ At(data, 1) \in {100, 77, 66} THEN parseAVCConfig(data)
       ELSE IF isConfig /\ At(data, 1) = 129 THEN parseAV1Config(data)
       ELSE IF isConfig /\ At(data, 1) = 145 THEN parseVP9Config(data)
       ELSE IF Len(data) < 4 THEN getDefaultColorInfo
       ELSE IF colourType = FourCC.nclx \/ colourType = FourCC.nclc
            THEN IF Len(data) < (IF colourType = FourCC.nclx THEN 11 ELSE 10)
                 THEN getDefaultColorInfo
                 ELSE [matrixCoefficients |-> mapMatrixCoefficients(Uint16At(data, 8)),
                       transferCharacteristics |->
                           mapTransferCharacteristics(Uint16At(data, 6)),
                       primaries |-> mapColorPrimaries(Uint16At(data, 4)),
                       fullRange |-> IF colourType = FourCC.nclx
                                     THEN (IF At(data, 10) >= 128 THEN "true" ELSE "false")
                                     ELSE Null]
       ELSE IF colourType = FourCC.mdcv THEN parseMasteringDisplayColorVolume(data)
       ELSE IF colourType = FourCC.clli THEN parseContentLightLevel(data)
       ELSE IF colourType = FourCC.dovi THEN parseDolbyVision(data)
       ELSE IF colourType = FourCC.rICC \/ colourType = FourCC.prof
            THEN [matrixCoefficients |-> "rgb", transferCharacteristics |-> Null,
                  primaries |-> Null, fullRange |-> "true"]
       ELSE getDefaultColorInfo

-----------------------------------------------------------------------------
(* getOrientationFromMatrix (ExpoVideoMetadataModule.web.ts) *)

\* getOrientationFromMatrix with the two outcomes of a rotation of 180 exchanged
getOrientationFromMatrix_swapped(rotation, width, height) ==
    CASE rotation = 90 -> "Portrait"
      [] rotation = 270 -> "PortraitUpsideDown"
      [] rotation = 180 ->
             IF height > width THEN "LandscapeLeft" ELSE "PortraitUpsideDown"
      [] OTHER -> IF height > width THEN "Portrait" ELSE "LandscapeRight"

getOrientationFromMatrix(rotation, width, height) ==
    LET isNaturallyPortrait == height > width
    IN CASE rotation = 90 -> "Portrait"
         [] rotation = 270 -> "PortraitUpsideDown"
         [] rotation = 180 ->
                IF isNaturallyPortrait THEN "PortraitUpsideDown" ELSE "LandscapeLeft"
         [] OTHER -> IF isNaturallyPortrait THEN "Portrait" ELSE "LandscapeRight"

-----------------------------------------------------------------------------
(* What a call returns or throws *)

Threw(message) == [ok |-> FALSE, error |-> message]


-----------------------------------------------------------------------------
(* FpsDetector (part_008) *)

\* a + b for two numbers kept exact below 2 ** 30 in magnitude, saturated beyond
SatAdd(a, b) ==
    IF Clamp(a) = Huge /\ Clamp(b) = Huge THEN Huge
    ELSE Clamp(Clamp(a) + Clamp(b))

\* parseMP4TimingInfo returns null
NoTiming == [null |-> TRUE]

\* the sample table collected from entry i on: an entry is read while i is
\* below entryCount and 8 bytes remain, and kept unless its count or delta is 0
RECURSIVE sttsEntries(_, _, _)
sttsEntries(data, i, entryCount) ==
    IF i >= entryCount \/ Len(data) - (8 + 8 * i) < 8 THEN <<>>
    ELSE (IF WordAt(data, 8 + 8 * i) = 0 \/ WordAt(data, 12 + 8 * i) = 0 THEN <<>>
          ELSE <<[count |-> WordAt(data, 8 + 8 * i),
                  duration |-> WordAt(data, 12 + 8 * i)]>>)
         \o sttsEntries(data, i + 1, entryCount)

RECURSIVE totalSamplesOf(_)
totalSamplesOf(sampleTable) ==
    IF sampleTable = <<>> THEN 0
    ELSE SatAdd(totalSamplesOf(Tail(sampleTable)), Head(sampleTable).count)

parseMP4TimingInfo(data, timescale, duration) ==
    IF Len(data) < 8 THEN NoTiming
    ELSE IF WordAt(data, 4) <= 0 \/ WordAt(data, 4) > 10000 THEN NoTiming
    ELSE IF sttsEntries(data, 0, WordAt(data, 4)) = <<>> THEN NoTiming
    ELSE [null |-> FALSE,
          timescale |-> timescale,
          sampleTable |-> sttsEntries(data, 0, WordAt(data, 4)),
          duration |-> duration,
          totalSamples |-> totalSamplesOf(sttsEntries(data, 0, WordAt(data, 4)))]

\* calculateFps returns undefined, or a number kept as its thousandths
NoFps == [defined |-> FALSE]

Fps(thousandths) == [defined |-> TRUE, thousandths |-> thousandths]

\* commonFps, in thousandths
commonFps ==
    <<23976, 24000, 25000, 29970, 30000, 48000, 50000, 59940, 60000, 90000, 120000,
      144000, 165000, 240000>>

Abs(n) == IF n < 0 THEN 0 - n ELSE n

\* Math.abs(y - value) <= 0.01 when y lies at 0.01 from value exactly: the
\* doubles nearest y, value and 0.01 decide.  Their difference is at most the
\* double 0.01 for the values between 32 and 64 and between 128 and 256, and
\* below 23.976, 29.97 and 59.94; it exceeds it elsewhere.
tieWithinTolerance(value, below) ==
    \/ value \in {48000, 50000, 60000, 144000, 165000, 240000}
    \/ below /\ value \in {23976, 29970, 59940}

\* Math.abs(n / d - value) <= tolerance, value in thousandths and d > 0
withinTolerance(n, d, value) ==
    \/ Abs(1000 * n - value * d) < 10 * d
    \/ /\ Abs(1000 * n - value * d) = 10 * d
       /\ tieWithinTolerance(value, 1000 * n < value * d)

\* the first entry of commonFps, from index i on, that the rate n / d matches
\* exactly; then the first that its half or its double matches; 0 for none
RECURSIVE exactMatch(_, _, _)
exactMatch(n, d, i) ==
    IF i > Len(commonFps) THEN 0
    ELSE IF withinTolerance(n, d, commonFps[i]) THEN commonFps[i]
    ELSE exactMatch(n, d, i + 1)

RECURSIVE multipleMatch(_, _, _)
multipleMatch(n, d, i) ==
    IF i > Len(commonFps) THEN 0
    ELSE IF withinTolerance(n, 2 * d, commonFps[i]) THEN commonFps[i]
    ELSE IF withinTolerance(2 * n, d, commonFps[i]) THEN commonFps[i]
    ELSE multipleMatch(n, d, i + 1)

\* what calculateFps returns for calculatedFps = n / d, d > 0
fromCalculatedFps(n, d) ==
    IF exactMatch(n, d, 1) # 0 THEN Fps(exactMatch(n, d, 1))
    ELSE IF multipleMatch(n, d, 1) # 0 THEN Fps(multipleMatch(n, d, 1))
    ELSE IF n >= 10 * d /\ n <= 240 * d THEN Fps((2000 * n + d) \div (2 * d))
    ELSE NoFps

RECURSIVE totalDurationOf(_)
totalDurationOf(sampleTable) ==
    IF sampleTable = <<>> THEN 0
    ELSE totalDurationOf(Tail(sampleTable))
         + Head(sampleTable).duration * Head(sampleTable).count

RECURSIVE totalFramesOf(_)
totalFramesOf(sampleTable) ==
    IF sampleTable = <<>> THEN 0
    ELSE totalFramesOf(Tail(sampleTable)) + Head(sampleTable).count

\* calculateFps(timing): timescale / (totalDuration / totalFrames), kept as the
\* quotient of timescale * totalFrames by totalDuration with a positive divisor
calculateFps(timing) ==
    IF timing.null THEN NoFps
    ELSE IF timing.sampleTable = <<>> \/ timing.timescale = 0 THEN NoFps
    ELSE IF totalDurationOf(timing.sampleTable) = 0
            \/ totalFramesOf(timing.sampleTable) = 0 THEN NoFps
    ELSE IF totalDurationOf(timing.sampleTable) < 0
    THEN fromCalculatedFps(0 - timing.timescale * totalFramesOf(timing.sampleTable),
                           0 - totalDurationOf(timing.sampleTable))
    ELSE fromCalculatedFps(timing.timescale * totalFramesOf(timing.sampleTable),
                           totalDurationOf(timing.sampleTable))
-----------------------------------------------------------------------------
(* MP4Parser (mp4-parser.ts) *)

\* no box: the undefined of Array.find
NoBox == [type |-> <<>>, size |-> 0, start |-> 0 - 1, end |-> 0 - 1, data |-> <<>>]

\* boxes.find(box => box.type === type)
findBox(boxes, type) ==
    IF \E i \in 1..Len(boxes) : boxes[i].type = type
    THEN boxes[CHOOSE i \in 1..Len(boxes) :
                  /\ boxes[i].type = type
                  /\ \A j \in 1..(i - 1) : boxes[j].type # type]
    ELSE NoBox

\* boxes.filter(box => box.type === type)
filterBoxes(boxes, type) == SelectSeq(boxes, LAMBDA b : b.type = type)

\* The top-level walk.  parseFragment, run on a moof box, only fills the
\* fragment table; it reads by index and never throws.
RECURSIVE readBoxesFrom(_, _, _)
readBoxesFrom(data, offset, boxes) ==
    LET Walk(size, headerSize) ==
            readBoxesFrom(data,
                offset + (IF size < headerSize THEN headerSize ELSE size),
                IF offset + headerSize <= Len(data)
                THEN Append(boxes,
                        [type |-> Slice(data, offset + 4, offset + 8), size |-> size,
                         start |-> offset, end |-> offset + size,
                         data |-> Slice(data, offset + headerSize, offset + size)])
                ELSE boxes)
        Sized(size32) ==
            IF size32 = 1 /\ Len(data) - offset >= 16
            THEN Walk(Size64(WordAt(data, offset + 8), WordAt(data, offset + 12)), 16)
            ELSE Walk(IF size32 = 0 THEN Len(data) - offset ELSE size32, 8)
    IN IF offset >= Len(data) \/ Len(data) - offset < 8 THEN boxes
       ELSE Sized(Clamp(WordAt(data, offset)))

readBoxes(data) == readBoxesFrom(data, 0, <<>>)

\* the header length parseBoxes gives a box of this type
nestedHeaderSize(type) ==
    IF type = FourCC.stsd THEN 16
    ELSE IF type = FourCC.avc1 THEN 86
    ELSE IF type = FourCC.hev1 \/ type = FourCC.hvc1 THEN 86
    ELSE 8

RECURSIVE parseBoxesFrom(_, _, _)
parseBoxesFrom(data, offset, boxes) ==
    LET Walk(type, boxSize, headerSize) ==
            IF boxSize < headerSize \/ offset + boxSize > Len(data) THEN boxes
            ELSE parseBoxesFrom(data, offset + boxSize,
                    Append(boxes,
                        [type |-> type, size |-> boxSize, start |-> offset,
                         end |-> offset + boxSize,
                         data |-> Slice(data, offset + headerSize, offset + boxSize)]))
        Sized(size, type) ==
            IF size <= 0 \/ size > Len(data) - offset THEN boxes
            ELSE IF size = 1
                 THEN IF Len(data) - offset < 16 THEN boxes
                      ELSE Walk(type,
                                Size64(WordAt(data, offset + 8), WordAt(data, offset + 12)),
                                16)
            ELSE Walk(type, size, nestedHeaderSize(type))
    IN IF offset >= Len(data) \/ Len(data) - offset < 8 THEN boxes
       ELSE Sized(Clamp(WordAt(data, offset)), Slice(data, offset + 4, offset + 8))

\* the nested walk done as the top-level walk does it
parseBoxes_topLevel(data) == readBoxes(data)

parseBoxes(data) == parseBoxesFrom(data, 0, <<>>)

\* findBoxOffset returns -1 for "not found"; a scan that comes back to an
\* offset it has already visited never ends, which Diverges stands for.
NotFound == 0 - 1
Diverges == 0 - 2

RECURSIVE findBoxOffsetFrom(_, _, _, _)
findBoxOffsetFrom(data, type, offset, visited) ==
    LET Step(size) ==
            IF size = 0 THEN NotFound
            ELSE IF size = 1
                 THEN IF Len(data) - offset < 16 THEN NotFound
                      ELSE findBoxOffsetFrom(data, type, offset + 16,
                                             visited \cup {offset})
            ELSE findBoxOffsetFrom(data, type, offset + size, visited \cup {offset})
    IN IF ~(offset < Len(data) - 8) THEN NotFound
       ELSE IF offset \in visited THEN Diverges
       ELSE IF Slice(data, offset + 4, offset + 8) = type THEN offset
       ELSE Step(Clamp(WordAt(data, offset)))

findBoxOffset(data, type) == findBoxOffsetFrom(data, type, 0, {})

\* The handler_type of a trak as findVideoTrack and findAudioTrack read it:
\* <<>> when the loop goes on to the next trak, HandlerHangs when a scan never ends.
HandlerHangs == <<Diverges>>

trakHandlerType(trak) ==
    LET InMdia(mdiaData) ==
            LET Handler(hdlrOffset) ==
                    IF hdlrOffset = Diverges THEN HandlerHangs
                    ELSE IF hdlrOffset = NotFound THEN <<>>
                    ELSE IF Len(mdiaData) < hdlrOffset + 16 + 4 THEN <<>>
                    ELSE Slice(mdiaData, hdlrOffset + 16, hdlrOffset + 16 + 4)
            IN Handler(findBoxOffset(mdiaData, FourCC.hdlr))
        InTrak(mdiaOffset) ==
            IF mdiaOffset = Diverges THEN HandlerHangs
            ELSE IF mdiaOffset = NotFound THEN <<>>
            ELSE InMdia(SliceFrom(trak.data, mdiaOffset + 8))
    IN InTrak(findBoxOffset(trak.data, FourCC.mdia))

\* the first trak, in order, whose handler is `handler`: its index, 0 for none,
\* Diverges when a scan before it never ends
RECURSIVE firstTrakWithHandler(_, _, _)
firstTrakWithHandler(tracks, handler, i) ==
    LET Check(h) ==
            IF h = HandlerHangs THEN Diverges
            ELSE IF h = handler THEN i
            ELSE firstTrakWithHandler(tracks, handler, i + 1)
    IN IF i > Len(tracks) THEN 0 ELSE Check(trakHandlerType(tracks[i]))

\* the fragmented-MP4 fallback of findVideoTrack: the first (trex, trak) pair,
\* trex outermost, whose track ids agree
trexMatches(trex, trak) ==
    LET Agree(tkhd) == tkhd # NoBox /\ WordAt(tkhd.data, 12) = WordAt(trex.data, 4)
    IN Agree(findBox(parseBoxes(trak.data), FourCC.tkhd))

fragmentedTrak(moovBoxes, tracks) ==
    LET First(pairs) ==
            IF pairs = {} THEN NoBox
            ELSE tracks[(CHOOSE p \in pairs :
                            \A q \in pairs :
                                p[1] < q[1] \/ (p[1] = q[1] /\ p[2] <= q[2]))[2]]
        Among(trexes) ==
            First({p \in (1..Len(trexes)) \X (1..Len(tracks)) :
                      trexMatches(trexes[p[1]], tracks[p[2]])})
        In(mvex) ==
            IF mvex = NoBox THEN NoBox
            ELSE Among(filterBoxes(parseBoxes(mvex.data), FourCC.trex))
    IN In(findBox(moovBoxes, FourCC.mvex))

\* the trak at index i of tracks, `otherwise` for i = 0: [hangs, box], box =
\* NoBox being the undefined the code returns
trakAt(tracks, i, otherwise) ==
    IF i = Diverges THEN [hangs |-> TRUE, box |-> NoBox]
    ELSE IF i > 0 THEN [hangs |-> FALSE, box |-> tracks[i]]
    ELSE [hangs |-> FALSE, box |-> otherwise]

findVideoTrack(moovBoxes) ==
    trakAt(filterBoxes(moovBoxes, FourCC.trak),
           firstTrakWithHandler(filterBoxes(moovBoxes, FourCC.trak), FourCC.vide, 1),
           fragmentedTrak(moovBoxes, filterBoxes(moovBoxes, FourCC.trak)))

findAudioTrack(moovBoxes) ==
    trakAt(filterBoxes(moovBoxes, FourCC.trak),
           firstTrakWithHandler(filterBoxes(moovBoxes, FourCC.trak), FourCC.soun, 1),
           NoBox)

\* this.findBox(await this.parseBoxes(box.data), type), NoBox inside NoBox
childBox(box, type) == findBox(parseBoxes(box.data), type)

\* bytes an mdhd payload must hold for the reads made on it
mdhdNeeds(data) == IF At(data, 0) = 1 THEN 32 ELSE 20

\* timescale and duration as read from an mdhd payload long enough
mdhdTimescale(data) == WordAt(data, IF At(data, 0) = 1 THEN 20 ELSE 12)

mdhdDuration(data) ==
    IF At(data, 0) = 1
    THEN [hi |-> WordAt(data, 24), lo |-> WordAt(data, 28)]
    ELSE [hi |-> 0, lo |-> WordAt(data, 16)]

\* the mdhd box of the first trak, from index i on, that has one under mdia
RECURSIVE firstMdhd(_, _)
firstMdhd(traks, i) ==
    LET Check(mdhd) == IF mdhd # NoBox THEN mdhd ELSE firstMdhd(traks, i + 1)
    IN IF i > Len(traks) THEN NoBox
       ELSE Check(childBox(childBox(traks[i], FourCC.mdia), FourCC.mdhd))

getDuration(moovBoxes) ==
    LET Read(data) ==
            IF Len(data) < mdhdNeeds(data) THEN Num(0, 0, 1)
            ELSE Num(mdhdDuration(data).hi, mdhdDuration(data).lo, mdhdTimescale(data))
        Of(mdhd) == IF mdhd = NoBox THEN Num(0, 0, 1) ELSE Read(mdhd.data)
    IN Of(firstMdhd(filterBoxes(moovBoxes, FourCC.trak), 1))

\* number.toString(16) as the characters it yields, and padStart(2, '0')
HexDigit(d) == IF d < 10 THEN 48 + d ELSE 87 + d
ToHex(n) == IF n < 16 THEN <<HexDigit(n)>> ELSE <<HexDigit(n \div 16), HexDigit(n % 16)>>
PadStart2(chars) == IF Len(chars) < 2 THEN <<48>> \o chars ELSE chars

\* the first box of boxes whose type is order[i] for the least i, from i on
RECURSIVE firstOfTypes(_, _, _)
firstOfTypes(boxes, order, i) ==
    IF i > Len(order) THEN NoBox
    ELSE IF \E k \in 1..Len(boxes) : boxes[k].type = order[i]
         THEN findBox(boxes, order[i])
    ELSE firstOfTypes(boxes, order, i + 1)

\* The first sample entry of a type parseVideoTrack knows, in its order of search.
findSampleEntry(stsdBoxes) ==
    firstOfTypes(stsdBoxes, <<FourCC.avc1, FourCC.hev1, FourCC.hvc1, FourCC.mp4v, FourCC.vp08, FourCC.vp09, FourCC.av01>>, 1)

\* The codec string, or CodecThrows where toString is called on undefined
\* (a TypeError).
CodecThrows == <<Undef>>

videoCodec(videoTrack, videoBoxes) ==
    LET Avc(avcC) ==
            IF avcC = NoBox THEN videoTrack.type
            ELSE IF Len(avcC.data) < 4 THEN CodecThrows
            ELSE FourCC.avc1 \o <<46>> \o PadStart2(ToHex(At(avcC.data, 1)))
                        \o PadStart2(ToHex(At(avcC.data, 3)))
        Hevc(hvcC) ==
            IF hvcC = NoBox THEN videoTrack.type
            ELSE IF Len(hvcC.data) < 13 THEN CodecThrows
            ELSE videoTrack.type \o <<46>> \o ToHex(At(hvcC.data, 1) % 32)
                                 \o ToHex(At(hvcC.data, 12))
    IN IF videoTrack.type = FourCC.avc1 THEN Avc(findBox(videoBoxes, FourCC.avcC))
       ELSE IF videoTrack.type = FourCC.hev1 \/ videoTrack.type = FourCC.hvc1
            THEN Hevc(findBox(videoBoxes, FourCC.hvcC))
       ELSE videoTrack.type

\* matrixRotation with the outcomes 90 and 270 exchanged
matrixRotation_swapped(tkhdData) ==
    LET Of(m0, m1, m3, m4) ==
            IF m0 = 0 /\ m4 = 0
            THEN IF m1 = 0 - 65536 /\ m3 = 65536 THEN 90
                 ELSE IF m1 = 65536 /\ m3 = 0 - 65536 THEN 270
                 ELSE 0
            ELSE IF m0 = 0 - 65536 /\ m4 = 0 - 65536 THEN 180
            ELSE 0
    IN Of(WordAt(tkhdData, 40), WordAt(tkhdData, 44), WordAt(tkhdData, 52),
          WordAt(tkhdData, 56))

\* rotation from the matrix words a, b, c, d of the tkhd payload
matrixRotation(tkhdData) ==
    LET Of(m0, m1, m3, m4) ==
            IF m0 = 0 /\ m4 = 0
            THEN IF m1 = 0 - 65536 /\ m3 = 65536 THEN 270
                 ELSE IF m1 = 65536 /\ m3 = 0 - 65536 THEN 90
                 ELSE 0
            ELSE IF m0 = 0 - 65536 /\ m4 = 0 - 65536 THEN 180
            ELSE 0
    IN Of(WordAt(tkhdData, 40), WordAt(tkhdData, 44), WordAt(tkhdData, 52),
          WordAt(tkhdData, 56))

\* the colour information of one colour box, the default without a box
boxColorInfo(box) ==
    IF box = NoBox THEN getDefaultColorInfo ELSE parseMP4ColorInfo(box.data)

\* the content-light-level upgrade: an SDR answer gives way to an HDR one
withContentLight(colorInfo, clli) ==
    IF clli # NoBox /\ ~isHdr(colorInfo) /\ isHdr(parseMP4ColorInfo(clli.data))
    THEN parseMP4ColorInfo(clli.data)
    ELSE colorInfo

\* The colour boxes of a sample entry in their order of priority, then the
\* content-light-level upgrade.  'st2086' is no four-character type: never found.
trackColorInfo(videoBoxes) ==
    withContentLight(
        boxColorInfo(firstOfTypes(videoBoxes,
            <<FourCC.colr, FourCC.mdcv, FourCC.dvcC, FourCC.dvvC, FourCC.hvcC, FourCC.vpcC, FourCC.av1C, FourCC.avcC>>, 1)),
        findBox(videoBoxes, FourCC.clli))

\* the display width: the width scaled by the pixel aspect ratio, as the exact
\* rounded quotient
displayWidth(width, pasp) ==
    IF pasp # NoBox /\ WordAt(pasp.data, 0) # 0 /\ WordAt(pasp.data, 4) # 0
    THEN RoundDiv(width * WordAt(pasp.data, 0), WordAt(pasp.data, 4))
    ELSE width

\* The part of parseVideoTrack that follows the search of the boxes: the errors
\* in the order the code meets them, then the metadata.  NoBox stands for a box
\* not found; fps is left aside, and with it the videoBitrate of fragments.
trackMetadata(tkhd, mdia, minf, stbl, stsd, mdhd, videoTrack, videoBoxes) ==
    IF tkhd = NoBox THEN Threw("No tkhd box found")
    ELSE IF Len(tkhd.data) < 40 THEN Threw("Skip beyond bounds")
    ELSE IF Len(tkhd.data) < 84 THEN Threw("Read beyond bounds")
    ELSE IF mdia = NoBox THEN Threw("No mdia box found")
    ELSE IF minf = NoBox THEN Threw("No minf box found")
    ELSE IF stbl = NoBox THEN Threw("No stbl box found")
    ELSE IF stsd = NoBox THEN Threw("No stsd box found")
    ELSE IF videoTrack # NoBox /\ videoCodec(videoTrack, videoBoxes) = CodecThrows
         THEN Threw("TypeError")
    ELSE IF videoTrack # NoBox /\ findBox(videoBoxes, FourCC.pasp) # NoBox
            /\ Len(findBox(videoBoxes, FourCC.pasp).data) < 8
         THEN Threw("Read beyond bounds")
    ELSE IF videoTrack # NoBox /\ findBox(videoBoxes, FourCC.btrt) # NoBox
            /\ Len(findBox(videoBoxes, FourCC.btrt).data) < 12
         THEN Threw("Read beyond bounds")
    ELSE IF mdhd # NoBox /\ Len(mdhd.data) < mdhdNeeds(mdhd.data)
         THEN Threw(IF Len(mdhd.data) = 0 \/ Len(mdhd.data) >= mdhdNeeds(mdhd.data) - 12
                    THEN "Read beyond bounds" ELSE "Skip beyond bounds")
    ELSE [ok |-> TRUE,
          width |-> RoundDiv(WordAt(tkhd.data, 76), 65536),
          height |-> RoundDiv(WordAt(tkhd.data, 80), 65536),
          rotation |-> matrixRotation(tkhd.data),
          displayAspectWidth |->
              displayWidth(RoundDiv(WordAt(tkhd.data, 76), 65536),
                           IF videoTrack = NoBox THEN NoBox
                           ELSE findBox(videoBoxes, FourCC.pasp)),
          displayAspectHeight |-> RoundDiv(WordAt(tkhd.data, 80), 65536),
          colorInfo |-> IF videoTrack = NoBox THEN getDefaultColorInfo
                        ELSE trackColorInfo(videoBoxes),
          codec |-> IF videoTrack = NoBox THEN <<>>
                    ELSE videoCodec(videoTrack, videoBoxes),
          videoBitrate |-> IF videoTrack # NoBox /\ findBox(videoBoxes, FourCC.btrt) # NoBox
                           THEN WordAt(findBox(videoBoxes, FourCC.btrt).data, 8)
                           ELSE 0]

\* the boxes parseVideoTrack looks for in a trak, each inside the one before
mdiaOf(trak) == childBox(trak, FourCC.mdia)
minfOf(trak) == childBox(mdiaOf(trak), FourCC.minf)
stblOf(trak) == childBox(minfOf(trak), FourCC.stbl)
stsdOf(trak) == childBox(stblOf(trak), FourCC.stsd)
sampleEntryOf(trak) == findSampleEntry(parseBoxes(stsdOf(trak).data))

parseVideoTrack(trak, moovBoxes) ==
    trackMetadata(childBox(trak, FourCC.tkhd), mdiaOf(trak), minfOf(trak), stblOf(trak),
                  stsdOf(trak), childBox(mdiaOf(trak), FourCC.mdhd), sampleEntryOf(trak),
                  parseBoxes(sampleEntryOf(trak).data))

noAudioInfo ==
    [hasAudio |-> FALSE, audioChannels |-> 0, audioSampleRate |-> 0, audioCodec |-> ""]

\* mp4a.data.indexOf(0x65, 28)
esdsIndex(data) ==
    LET First(hits) == IF hits = {} THEN 0 - 1 ELSE CHOOSE i \in hits : \A j \in hits : i <= j
    IN First({i \in 28..(Len(data) - 1) : At(data, i) = 101})

audioCodecOf(objectTypeID) ==
    CASE objectTypeID \in {64, 65, 66} -> "aac"
      [] objectTypeID \in {69, 70, 71} -> "aac-he"
      [] objectTypeID \in {103, 104, 165} -> "ac3"
      [] objectTypeID = 107 -> "mp3"
      [] objectTypeID = 166 -> "e-ac3"
      [] objectTypeID = 169 -> "dts"
      [] objectTypeID = 170 -> "dts-hd"
      [] objectTypeID = 171 -> "dts-hd-ma"
      [] objectTypeID = 172 -> "truehd"
      [] objectTypeID = 173 -> "flac"
      [] objectTypeID = 174 -> "alac"
      [] objectTypeID = 175 -> "opus"
      [] objectTypeID = 109 -> "aac-he-v2"
      [] objectTypeID = 221 -> "vorbis"
      [] objectTypeID = 225 -> "pcm"
      [] OTHER -> "aac"

\* the audio answer read from the payload of an mp4a entry, esdsStart being
\* where its 'e' was found
mp4aInfo(data, esdsStart) ==
    LET isEsds == /\ esdsStart > 0
                  /\ At(data, esdsStart + 1) = 115
                  /\ At(data, esdsStart + 2) = 100
                  /\ At(data, esdsStart + 3) = 115
    IN IF isEsds /\ At(data, esdsStart + 21) = Undef THEN noAudioInfo
       ELSE [hasAudio |-> TRUE,
             audioChannels |-> Bits(At(data, 16)) * 256 + Bits(At(data, 17)),
             audioSampleRate |-> Bits(At(data, 24)) * 256 + Bits(At(data, 25)),
             audioCodec |-> IF isEsds THEN audioCodecOf(At(data, esdsStart + 21))
                            ELSE "aac"]

\* the mp4a entry of a trak: under mdia, minf, stbl and stsd, each inside the
\* one before; one of them missing leaves mp4a missing
mp4aOf(trak) == childBox(stsdOf(trak), FourCC.mp4a)

parseAudioMetadata(trak) ==
    IF mp4aOf(trak) = NoBox THEN noAudioInfo
    ELSE mp4aInfo(mp4aOf(trak).data, esdsIndex(mp4aOf(trak).data))

\* a call that never returns
NeverReturns == [ok |-> FALSE, error |-> "<never returns>"]

\* bitrate of parse: the bits of the file over the duration, when both are
\* not 0
containerBitrate(length, duration) ==
    IF length # 0 /\ Truthy(duration) THEN Quotient("floor", length * 8, duration)
    ELSE NoRate

\* the result MP4Parser.parse assembles
MP4Result(data, metadata, audioInfo, duration) ==
    [ok |-> TRUE, container |-> "mp4",
     width |-> metadata.width, height |-> metadata.height,
     rotation |-> metadata.rotation,
     displayAspectWidth |-> metadata.displayAspectWidth,
     displayAspectHeight |-> metadata.displayAspectHeight,
     colorInfo |-> metadata.colorInfo, codec |-> metadata.codec,
     videoBitrate |-> metadata.videoBitrate,
     hasAudio |-> audioInfo.hasAudio,
     audioChannels |-> audioInfo.audioChannels,
     audioSampleRate |-> audioInfo.audioSampleRate,
     audioCodec |-> audioInfo.audioCodec,
     duration |-> duration, fileSize |-> Len(data),
     bitrate |-> containerBitrate(Len(data), duration)]

\* parse from the moov boxes on: the video track, its metadata, the audio
\* track, the duration
parseMovie(data, moovBoxes, trak, metadata) ==
    IF trak.hangs THEN NeverReturns
    ELSE IF trak.box = NoBox
         THEN Threw("File contains no video track, likely just audio")
    ELSE IF ~metadata.ok THEN metadata
    ELSE IF findAudioTrack(moovBoxes).hangs THEN NeverReturns
    ELSE MP4Result(data, metadata,
                   IF findAudioTrack(moovBoxes).box # NoBox
                   THEN parseAudioMetadata(findAudioTrack(moovBoxes).box)
                   ELSE noAudioInfo,
                   getDuration(moovBoxes))

parseMoov(data, moovBoxes) ==
    parseMovie(data, moovBoxes, findVideoTrack(moovBoxes),
               parseVideoTrack(findVideoTrack(moovBoxes).box, moovBoxes))

MP4Parser_parse(data) ==
    IF findBox(readBoxes(data), FourCC.moov) = NoBox THEN Threw("No moov box found")
    ELSE parseMoov(data, parseBoxes(findBox(readBoxes(data), FourCC.moov).data))

-----------------------------------------------------------------------------
(* MOVParser (mov-parser.ts) over the MP4Parser beside it (web/mp4-parser.ts) *)

\* web/mp4-parser.ts stops its top-level walk at the first box that does not fit
RECURSIVE readBoxes_movFrom(_, _, _)
readBoxes_movFrom(data, offset, boxes) ==
    LET Walk(boxSize, headerSize) ==
            IF boxSize < headerSize \/ offset + boxSize > Len(data) THEN boxes
            ELSE readBoxes_movFrom(data, offset + boxSize,
                    Append(boxes,
                        [type |-> Slice(data, offset + 4, offset + 8),
                         size |-> boxSize, start |-> offset, end |-> offset + boxSize,
                         data |-> Slice(data, offset + headerSize, offset + boxSize)]))
        Sized(size) ==
            IF size = 1
            THEN IF Len(data) - offset < 16 THEN boxes
                 ELSE Walk(Size64(WordAt(data, offset + 8), WordAt(data, offset + 12)), 16)
            ELSE Walk(IF size = 0 THEN Len(data) - offset ELSE size, 8)
    IN IF offset >= Len(data) \/ Len(data) - offset < 8 THEN boxes
       ELSE Sized(Clamp(WordAt(data, offset)))

readBoxes_mov(data) == readBoxes_movFrom(data, 0, <<>>)

\* its parseBoxes knows the long sample-entry header of 'avc1' alone
RECURSIVE parseBoxes_movFrom(_, _, _)
parseBoxes_movFrom(data, offset, boxes) ==
    LET Walk(type, boxSize, headerSize) ==
            IF boxSize < headerSize \/ offset + boxSize > Len(data) THEN boxes
            ELSE parseBoxes_movFrom(data, offset + boxSize,
                    Append(boxes,
                        [type |-> type, size |-> boxSize, start |-> offset,
                         end |-> offset + boxSize,
                         data |-> Slice(data, offset + headerSize, offset + boxSize)]))
        Sized(size, type) ==
            IF size <= 0 \/ size > Len(data) - offset THEN boxes
            ELSE IF size = 1
                 THEN IF Len(data) - offset < 16 THEN boxes
                      ELSE Walk(type,
                                Size64(WordAt(data, offset + 8), WordAt(data, offset + 12)),
                                16)
            ELSE Walk(type, size,
                      IF type = FourCC.stsd THEN 16 ELSE IF type = FourCC.avc1 THEN 86 ELSE 8)
    IN IF offset >= Len(data) \/ Len(data) - offset < 8 THEN boxes
       ELSE Sized(Clamp(WordAt(data, offset)), Slice(data, offset + 4, offset + 8))

parseBoxes_mov(data) == parseBoxes_movFrom(data, 0, <<>>)

\* this.findBox(await this.parseBoxes(box.data), type) in web/mp4-parser.ts
childBox_mov(box, type) == findBox(parseBoxes_mov(box.data), type)

\* its findVideoTrack has no fragment fallback
findVideoTrack_mov(moovBoxes) ==
    trakAt(filterBoxes(moovBoxes, FourCC.trak),
           firstTrakWithHandler(filterBoxes(moovBoxes, FourCC.trak), FourCC.vide, 1),
           NoBox)

\* The part of its parseVideoTrack that follows the search of the boxes, the
\* frame rate aside.
trackMetadata_base(tkhd, mdia, minf, stbl, stsd, mdhd, pasp, colr) ==
    IF tkhd = NoBox THEN Threw("No tkhd box found")
    ELSE IF Len(tkhd.data) < 40 THEN Threw("Skip beyond bounds")
    ELSE IF Len(tkhd.data) < 84 THEN Threw("Read beyond bounds")
    ELSE IF mdia = NoBox THEN Threw("No mdia box found")
    ELSE IF minf = NoBox THEN Threw("No minf box found")
    ELSE IF stbl = NoBox THEN Threw("No stbl box found")
    ELSE IF stsd = NoBox THEN Threw("No stsd box found")
    ELSE IF pasp # NoBox /\ Len(pasp.data) < 8 THEN Threw("Read beyond bounds")
    ELSE IF mdhd # NoBox /\ Len(mdhd.data) < mdhdNeeds(mdhd.data)
         THEN Threw(IF Len(mdhd.data) = 0 \/ Len(mdhd.data) >= mdhdNeeds(mdhd.data) - 12
                    THEN "Read beyond bounds" ELSE "Skip beyond bounds")
    ELSE [ok |-> TRUE,
          width |-> RoundDiv(WordAt(tkhd.data, 76), 65536),
          height |-> RoundDiv(WordAt(tkhd.data, 80), 65536),
          rotation |-> matrixRotation(tkhd.data),
          displayAspectWidth |-> displayWidth(RoundDiv(WordAt(tkhd.data, 76), 65536), pasp),
          displayAspectHeight |-> RoundDiv(WordAt(tkhd.data, 80), 65536),
          colorInfo |-> boxColorInfo(colr)]

\* the first sample entry of a type web/mp4-parser.ts knows
findSampleEntry_mov(stsdBoxes) == firstOfTypes(stsdBoxes, <<FourCC.avc1, FourCC.hev1, FourCC.mp4v>>, 1)

\* the boxes its parseVideoTrack looks for in a trak, each inside the one before
mdiaOf_mov(trak) == childBox_mov(trak, FourCC.mdia)
minfOf_mov(trak) == childBox_mov(mdiaOf_mov(trak), FourCC.minf)
stblOf_mov(trak) == childBox_mov(minfOf_mov(trak), FourCC.stbl)
stsdOf_mov(trak) == childBox_mov(stblOf_mov(trak), FourCC.stsd)
sampleEntryOf_mov(trak) == findSampleEntry_mov(parseBoxes_mov(stsdOf_mov(trak).data))

\* a box of the sample entry, NoBox without a sample entry
entryBox_mov(trak, type) ==
    IF sampleEntryOf_mov(trak) = NoBox THEN NoBox
    ELSE childBox_mov(sampleEntryOf_mov(trak), type)

parseVideoTrack_base(trak) ==
    trackMetadata_base(childBox_mov(trak, FourCC.tkhd), mdiaOf_mov(trak), minfOf_mov(trak),
                       stblOf_mov(trak), stsdOf_mov(trak),
                       childBox_mov(mdiaOf_mov(trak), FourCC.mdhd),
                       entryBox_mov(trak, FourCC.pasp), entryBox_mov(trak, FourCC.colr))

\* {width, height} of a clap box; {} (here 0, 0) when a denominator is 0
parseClap(clap) ==
    IF WordAt(clap.data, 4) # 0 /\ WordAt(clap.data, 12) # 0
    THEN [width |-> RoundDiv(WordAt(clap.data, 0), WordAt(clap.data, 4)),
          height |-> RoundDiv(WordAt(clap.data, 8), WordAt(clap.data, 12))]
    ELSE [width |-> 0, height |-> 0]

\* {width, height} of the clef box of a tapt box: the integer parts (>> 16)
parseTapt(tapt) ==
    IF childBox_mov(tapt, FourCC.clef) = NoBox THEN [width |-> 0, height |-> 0]
    ELSE [width |-> WordAt(childBox_mov(tapt, FourCC.clef).data, 8) \div 65536,
          height |-> WordAt(childBox_mov(tapt, FourCC.clef).data, 12) \div 65536]

\* the display size MOVParser.parseVideoTrack settles on: tapt over clap over
\* the base metadata
withApertures(baseMetadata, clap, tapt, clef, c, t) ==
    IF ~baseMetadata.ok THEN baseMetadata
    ELSE IF clap # NoBox /\ Len(clap.data) < 16 THEN Threw("Read beyond bounds")
    ELSE IF tapt # NoBox /\ clef # NoBox /\ Len(clef.data) < 8
         THEN Threw("Skip beyond bounds")
    ELSE IF tapt # NoBox /\ clef # NoBox /\ Len(clef.data) < 16
         THEN Threw("Read beyond bounds")
    ELSE [baseMetadata EXCEPT
             !.displayAspectWidth =
                 IF tapt # NoBox /\ t.width # 0 /\ t.height # 0 THEN t.width
                 ELSE IF clap # NoBox /\ c.width # 0 /\ c.height # 0 THEN c.width
                 ELSE @,
             !.displayAspectHeight =
                 IF tapt # NoBox /\ t.width # 0 /\ t.height # 0 THEN t.height
                 ELSE IF clap # NoBox /\ c.width # 0 /\ c.height # 0 THEN c.height
                 ELSE @]

\* clap and tapt are both looked for only when the trak itself holds an stsd box
clapOf(trak) ==
    IF childBox_mov(trak, FourCC.stsd) = NoBox THEN NoBox
    ELSE childBox_mov(childBox_mov(trak, FourCC.stsd), FourCC.clap)

taptOf(trak) ==
    IF childBox_mov(trak, FourCC.stsd) = NoBox THEN NoBox ELSE childBox_mov(trak, FourCC.tapt)

\* MOVParser.parseVideoTrack: the base metadata, then clap and tapt
parseVideoTrack_mov(trak) ==
    withApertures(parseVideoTrack_base(trak), clapOf(trak), taptOf(trak),
                  childBox_mov(taptOf(trak), FourCC.clef), parseClap(clapOf(trak)),
                  parseTapt(taptOf(trak)))

\* MOVParser.parse: MP4Parser.parse with the overridden parseVideoTrack, then
\* container 'mov'
MOVResult(trak, metadata) ==
    IF trak.hangs THEN NeverReturns
    ELSE IF trak.box = NoBox THEN Threw("No video track found")
    ELSE IF ~metadata.ok THEN metadata
    ELSE [ok |-> TRUE, container |-> "mov",
          width |-> metadata.width, height |-> metadata.height,
          rotation |-> metadata.rotation,
          displayAspectWidth |-> metadata.displayAspectWidth,
          displayAspectHeight |-> metadata.displayAspectHeight,
          colorInfo |-> metadata.colorInfo]

parseMoov_mov(moovBoxes) ==
    MOVResult(findVideoTrack_mov(moovBoxes),
              parseVideoTrack_mov(findVideoTrack_mov(moovBoxes).box))

MOVParser_parse(data) ==
    IF findBox(readBoxes_mov(data), FourCC.moov) = NoBox THEN Threw("No moov box found")
    ELSE parseMoov_mov(parseBoxes_mov(findBox(readBoxes_mov(data), FourCC.moov).data))
-----------------------------------------------------------------------------
(* BinaryReaderImpl.readVint (binary-reader.ts) *)

\* (value << 8) | byte on 32-bit integers
Shl8Or(value, byte) ==
    LET low24 == value % 16777216
    IN Int32Of(low24 \div 65536, (low24 \div 256) % 256, low24 % 256, byte)

\* value, then count bytes of data from `from` shifted in
RECURSIVE ShiftIn(_, _, _, _)
ShiftIn(value, data, from, count) ==
    IF count <= 0 THEN value
    ELSE ShiftIn(Shl8Or(value, At(data, from)), data, from + 1, count - 1)

\* the length the first byte announces: its leading zero bits, plus one
VintLength(firstByte) ==
    IF firstByte = 0 THEN 9
    ELSE CHOOSE n \in 1..8 : firstByte \div (2 ^ (8 - n)) = 1

VintThrows == [threw |-> TRUE]

\* the bytes readVint takes after the first: length - 1, or what is left
vintCount(data, offset, length) ==
    IF length - 1 < Len(data) - offset - 1 THEN length - 1 ELSE Len(data) - offset - 1

\* the first byte without its length marker
vintFirst(firstByte, length) ==
    IF length > 8 THEN 0 ELSE firstByte % (2 ^ (8 - length))

\* readVint of a reader over data at offset: the value and the offset after it.
\* The three 4-byte ids are returned whole; every other value loses its marker.
readVint(data, offset) ==
    IF offset + 1 > Len(data) THEN VintThrows
    ELSE IF offset + 4 <= Len(data) /\ At(data, offset) \in {26, 24, 22}
         THEN [threw |-> FALSE, value |-> WordAt(data, offset), offset |-> offset + 4]
    ELSE [threw |-> FALSE,
          value |-> ShiftIn(vintFirst(Bits(At(data, offset)),
                                      VintLength(Bits(At(data, offset)))),
                            data, offset + 1,
                            vintCount(data, offset, VintLength(Bits(At(data, offset))))),
          offset |-> offset + 1
                     + vintCount(data, offset, VintLength(Bits(At(data, offset))))]

\* The other primitives of the reader over data at offset, in the shape of
\* readVint: threw, or the value and the offset after it.
read(data, offset, length) ==
    IF offset + length > Len(data) THEN VintThrows
    ELSE [threw |-> FALSE, value |-> Slice(data, offset, offset + length),
          offset |-> offset + length]

\* readUint8, readUint16, readUint32 and readUint64, by the bytes they take
readUint(data, offset, width) ==
    IF offset + width > Len(data) THEN VintThrows
    ELSE [threw |-> FALSE,
          value |-> CASE width = 1 -> At(data, offset)
                      [] width = 2 -> Uint16At(data, offset)
                      [] width = 4 -> WordAt(data, offset)
                      [] width = 8 -> Size64(WordAt(data, offset), WordAt(data, offset + 4)),
          offset |-> offset + width]

\* new TextDecoder().decode(this.read(length)), an ASCII text kept as its bytes
readString(data, offset, length) == read(data, offset, length)

\* readEbmlSize: every byte is taken with readUint8, the value is capped at
\* what remains after it
readEbmlSize(data, offset) ==
    LET length == VintLength(Bits(At(data, offset)))
        size == ShiftIn(vintFirst(Bits(At(data, offset)), length), data, offset + 1,
                        length - 1)
        remaining == Len(data) - offset - length
    IN IF offset + length > Len(data) THEN VintThrows
       ELSE [threw |-> FALSE,
             value |-> IF size > remaining THEN remaining ELSE size,
             offset |-> offset + length]

\* readVint twice, for an id and then a size: the two values and the offset
\* after them, or threw and the offset the reader is left at
headerOf(id, size) ==
    IF size.threw THEN [threw |-> TRUE, at |-> id.offset]
    ELSE [threw |-> FALSE, id |-> id.value, size |-> size.value, at |-> size.offset]

sizeAfter(data, offset, id) ==
    IF id.threw THEN [threw |-> TRUE, at |-> offset]
    ELSE headerOf(id, readVint(data, id.offset))

readHeader(data, offset) == sizeAfter(data, offset, readVint(data, offset))

-----------------------------------------------------------------------------
(* HdrDetector.parseWebMColorInfo (part_005) *)

\* the field an element id of the Colour element sets from the byte read:
\* 0x55b1, 0x55b2, 0x55b9, 0x55ba
withColourField(info, id, byte) ==
    CASE id = 21937 -> [info EXCEPT !.matrixCoefficients = mapMatrixCoefficients(byte)]
      [] id = 21938 -> [info EXCEPT !.fullRange = IF byte = 0 THEN "true" ELSE "false"]
      [] id = 21945 ->
            [info EXCEPT !.transferCharacteristics = mapTransferCharacteristics(byte)]
      [] id = 21946 -> [info EXCEPT !.primaries = mapColorPrimaries(byte)]

\* The loop of parseWebMColorInfo with the reader at `offset`.  What a round
\* does depends on the offset alone, so a round that starts at an offset an
\* earlier round started at is the loop never ending.
RECURSIVE colourFrom(_, _, _, _)
RECURSIVE colourAfter(_, _, _, _, _)
colourFrom(data, offset, info, visited) ==
    IF Len(data) - offset < 2 THEN info
    ELSE IF offset \in visited THEN NeverReturns
    ELSE colourAfter(data, offset, info, visited, readHeader(data, offset))

\* one round, h being the id and size read
colourAfter(data, offset, info, visited, h) ==
    IF h.threw THEN getDefaultColorInfo
    ELSE IF Len(data) - h.at < h.size THEN info
    ELSE IF h.id \in {21937, 21938, 21945, 21946}
         THEN IF h.at + 1 > Len(data) THEN getDefaultColorInfo
              ELSE colourFrom(data, h.at + 1, withColourField(info, h.id, At(data, h.at)),
                              visited \cup {offset})
    ELSE IF h.at + h.size < 0 THEN getDefaultColorInfo
    ELSE colourFrom(data, h.at + h.size, info, visited \cup {offset})

parseWebMColorInfo(data) == colourFrom(data, 0, getDefaultColorInfo, {})

-----------------------------------------------------------------------------
(* WebMParser (webm-parser.ts) *)

E_EBML == 440786851
E_DocType == 17026
E_Segment == 408125543
E_Info == 88713574
E_Tracks == 374648427
E_TrackEntry == 46
E_TrackEntryLong == 44597
E_TrackType == 131
E_Video == 224
E_CodecID == 134
E_PixelWidth == 176
E_PixelHeight == 186
E_TimecodeScale == 710577
E_Duration == 1161

\* null, and an element
NoElement == [found |-> FALSE]
Element(id, size, data, offset) ==
    [found |-> TRUE, id |-> id, size |-> size, data |-> data, offset |-> offset]

maxAttempts == 100

RECURSIVE findElementFrom(_, _, _, _)
RECURSIVE elementAfter(_, _, _, _, _)
findElementFrom(data, targetId, offset, attempts) ==
    IF ~(offset < Len(data) - 1 /\ attempts < maxAttempts) THEN NoElement
    ELSE elementAfter(data, targetId, offset, attempts,
                      readHeader(SliceFrom(data, offset), 0))

\* one round of the loop of findElement, h being the id and size read
elementAfter(data, targetId, offset, attempts, h) ==
    IF h.threw THEN findElementFrom(data, targetId, offset + 1, attempts + 1)
    ELSE IF At(data, offset) = targetId /\ targetId < 255
         THEN IF Bits(At(data, offset + 1)) >= 128
              THEN Element(targetId, Bits(At(data, offset + 1)) % 128,
                           Slice(data, offset + 2,
                                 offset + 2 + (Bits(At(data, offset + 1)) % 128)),
                           offset + 2)
              ELSE findElementFrom(data, targetId, offset + 1, attempts + 1)
    ELSE IF h.id = targetId
         THEN Element(targetId, h.size,
                      Slice(data, offset + h.at, offset + h.at + Clamp(h.size)),
                      offset + h.at)
    ELSE findElementFrom(data, targetId, offset + h.at + Clamp(h.size), attempts + 1)

findElement(data, targetId) == findElementFrom(data, targetId, 0, 0)

\* the element readElement makes of the id and size read
elementOf(data, offset, h) ==
    IF h.threw THEN [threw |-> TRUE, element |-> NoElement, next |-> offset]
    ELSE IF h.size > Len(data) - h.at
         THEN [threw |-> FALSE, element |-> NoElement, next |-> h.at]
    ELSE [threw |-> FALSE,
          element |-> Element(h.id, h.size, Slice(data, h.at, h.at + Clamp(h.size)),
                              offset),
          next |-> h.at + Clamp(h.size)]

\* readElement of the parser's reader at offset: [threw], or the element (or
\* null) and the offset the reader is left at
readElement(data, offset) ==
    IF Len(data) - offset < 2
    THEN [threw |-> FALSE, element |-> NoElement, next |-> offset]
    ELSE elementOf(data, offset, readHeader(data, offset))

findEBMLHeaderElement(data, targetId) ==
    LET At3(i, size) == Element(targetId, size, Slice(data, i + 3, i + 3 + size), i)
        First(hits) ==
            IF hits = {} THEN NoElement
            ELSE At3(CHOOSE h \in hits : \A k \in hits : h <= k,
                     Bits(At(data, (CHOOSE h \in hits : \A k \in hits : h <= k) + 2))
                         % 128)
    IN First({i \in 0..(Len(data) - 2) :
                 /\ At(data, i) = targetId \div 256
                 /\ At(data, i + 1) = targetId % 256})

\* readUintFromElement: the bytes folded into a 32-bit integer
readUintFromElement(element) ==
    IF ~element.found THEN 0 ELSE ShiftIn(0, element.data, 0, Len(element.data))

\* String.toLowerCase and trim, on ASCII text
ToLowerCase(chars) ==
    [i \in 1..Len(chars) |-> IF chars[i] >= 65 /\ chars[i] <= 90
                             THEN chars[i] + 32 ELSE chars[i]]

IsSpace(c) == c \in {9, 10, 11, 12, 13, 32}

Trim(chars) ==
    LET Kept(kept) ==
            IF kept = {} THEN <<>>
            ELSE SubSeq(chars, CHOOSE i \in kept : \A j \in kept : i <= j,
                        CHOOSE i \in kept : \A j \in kept : i >= j)
    IN Kept({i \in 1..Len(chars) : ~IsSpace(chars[i])})

S_matroska == <<109, 97, 116, 114, 111, 115, 107, 97>>


\* findTracksElement: Tracks directly in the data, else in a Segment found by a
\* byte-by-byte search of the first maxSearchBytes bytes
maxSearchBytes == 1024

RECURSIVE nestedTracksFrom(_, _)
RECURSIVE tracksInside(_, _, _)
nestedTracksFrom(data, offset) ==
    IF ~(offset < Len(data) /\ offset < maxSearchBytes) THEN NoElement
    ELSE IF Len(data) - offset < 2 THEN NoElement
    ELSE tracksInside(data, offset, readHeader(SliceFrom(data, offset), 0))

\* one round of the byte-by-byte search, h being the id and size read
tracksInside(data, offset, h) ==
    IF /\ ~h.threw
       /\ h.id = E_Segment
       /\ findElement(Slice(data, offset + h.at, offset + h.at + Clamp(h.size)),
                      E_Tracks).found
    THEN findElement(Slice(data, offset + h.at, offset + h.at + Clamp(h.size)), E_Tracks)
    ELSE nestedTracksFrom(data, offset + 1)

findTracksElement(data) ==
    IF findElement(data, E_Tracks).found THEN findElement(data, E_Tracks)
    ELSE nestedTracksFrom(data, 0)

\* The scan of one track entry by findVideoTrack: "video" when a TrackType of 1
\* is read, "end" when the entry is exhausted, "hangs" when the reader returns
\* to an offset it has left, else the message of the error thrown.
RECURSIVE scanTrackEntry(_, _, _)
RECURSIVE scanAfter(_, _, _, _)
scanTrackEntry(trackData, offset, visited) ==
    IF ~(Len(trackData) - offset > 0) THEN "end"
    ELSE IF offset \in visited THEN "hangs"
    ELSE scanAfter(trackData, offset, visited, readHeader(trackData, offset))

\* one round of the scan, h being the id and size read
scanAfter(trackData, offset, visited, h) ==
    IF h.threw THEN "Cannot read VINT"
    ELSE IF h.id = 131 \/ h.id = 3
         THEN IF h.at + 1 > Len(trackData) THEN "Read beyond bounds"
              ELSE IF At(trackData, h.at) = 1 THEN "video"
              ELSE scanTrackEntry(trackData, h.at + 1, visited \cup {offset})
    ELSE IF h.id = 134 \/ h.id = 224 \/ h.id = 96
         THEN IF h.at + Clamp(h.size) > Len(trackData) THEN "Read beyond bounds"
              ELSE scanTrackEntry(trackData, h.at + Clamp(h.size),
                                  visited \cup {offset})
    ELSE IF h.at + Clamp(h.size) < 0 \/ h.at + Clamp(h.size) > Len(trackData)
         THEN "Skip beyond bounds"
    ELSE scanTrackEntry(trackData, h.at + Clamp(h.size), visited \cup {offset})

\* findVideoTrack: [status, track], status one of "found", "none", "hangs" or
\* the message of the error thrown
RECURSIVE findVideoTrackFrom(_, _, _)
RECURSIVE videoTrackAfter(_, _, _, _, _, _)
findVideoTrackFrom(data, offset, visited) ==
    IF ~(Len(data) - offset > 0) THEN [status |-> "none", track |-> NoElement]
    ELSE IF offset \in visited THEN [status |-> "hangs", track |-> NoElement]
    ELSE IF readHeader(data, offset).threw
         THEN [status |-> "Cannot read VINT", track |-> NoElement]
    ELSE videoTrackAfter(data, offset, visited, readHeader(data, offset),
            Slice(data, readHeader(data, offset).at,
                  readHeader(data, offset).at + Clamp(readHeader(data, offset).size)),
            readHeader(data, offset).at + Clamp(readHeader(data, offset).size))

\* one round of the loop of findVideoTrack, h being the id and size read,
\* trackData the payload and `to` the offset after it
videoTrackAfter(data, offset, visited, h, trackData, to) ==
    IF (h.id = 174 \/ h.id = 46) /\ scanTrackEntry(trackData, 0, {}) = "video"
    THEN [status |-> "found", track |-> Element(h.id, h.size, trackData, h.at)]
    ELSE IF (h.id = 174 \/ h.id = 46) /\ scanTrackEntry(trackData, 0, {}) # "end"
         THEN [status |-> scanTrackEntry(trackData, 0, {}), track |-> NoElement]
    ELSE IF to < 0 \/ to > Len(data)
         THEN [status |-> "Skip beyond bounds", track |-> NoElement]
    ELSE findVideoTrackFrom(data, to, visited \cup {offset})

WebM_findVideoTrack(data) == findVideoTrackFrom(data, 0, {})

\* findAudioTrack: every error is answered by skip(1), whose own error escapes.
\* A reader that returns to an offset it has left goes round until the attempts
\* are used up (the data is shorter than their limit), and null is returned.
RECURSIVE findAudioTrackFrom(_, _, _)
RECURSIVE audioTrackAfter(_, _, _, _, _, _)
RECURSIVE skipOne(_, _, _, _)
findAudioTrackFrom(data, offset, visited) ==
    IF ~(Len(data) - offset > 0) \/ offset \in visited
    THEN [status |-> "none", track |-> NoElement]
    ELSE IF readHeader(data, offset).threw
         THEN skipOne(data, offset, visited, readHeader(data, offset).at)
    ELSE audioTrackAfter(data, offset, visited, readHeader(data, offset),
            Slice(data, readHeader(data, offset).at,
                  readHeader(data, offset).at + Clamp(readHeader(data, offset).size)),
            readHeader(data, offset).at + Clamp(readHeader(data, offset).size))

\* the skip(1) of the catch block, the reader being at `at`
skipOne(data, offset, visited, at) ==
    IF at + 1 > Len(data) THEN [status |-> "Skip beyond bounds", track |-> NoElement]
    ELSE findAudioTrackFrom(data, at + 1, visited \cup {offset})

\* one round of the loop of findAudioTrack, h being the id and size read,
\* trackData the payload and `to` the offset after it
audioTrackAfter(data, offset, visited, h, trackData, to) ==
    IF /\ h.id = E_TrackEntry \/ h.id = E_TrackEntryLong
       /\ findElement(trackData, E_TrackType).found
       /\ At(findElement(trackData, E_TrackType).data, 0) = 2
    THEN [status |-> "found", track |-> Element(h.id, h.size, trackData, h.at)]
    ELSE IF to < 0 \/ to > Len(data) THEN skipOne(data, offset, visited, h.at)
    ELSE findAudioTrackFrom(data, to, visited \cup {offset})

WebM_findAudioTrack(data) == findAudioTrackFrom(data, 0, {})


\* the first nonzero width the forward scan of a track entry meets, else 0
scanWidth(data) ==
    LET Value(i) == IF At(data, i + 1) = 130
                    THEN Bits(At(data, i + 2)) * 256 + Bits(At(data, i + 3))
                    ELSE Bits(At(data, i + 2))
        First(hits) ==
            IF hits = {} THEN 0 ELSE Value(CHOOSE i \in hits : \A j \in hits : i <= j)
    IN First({i \in 0..(Len(data) - 4) :
                 /\ At(data, i) = 176
                 /\ At(data, i + 1) \in {130, 129}
                 /\ Value(i) # 0})

\* the height at the last place the backward scan matches, else 0
scanHeight(data) ==
    LET Value(i) == IF At(data, i - 1) = 130
                    THEN Bits(At(data, i)) * 256 + Bits(At(data, i + 1))
                    ELSE Bits(At(data, i))
        Last(hits) ==
            IF hits = {} THEN 0 ELSE Value(CHOOSE h \in hits : \A k \in hits : h >= k)
    IN Last({i \in 2..(Len(data) - 1) :
                /\ At(data, i - 2) = 186
                /\ At(data, i - 1) \in {130, 129}})

\* mapCodecId, on the characters of the id
mapCodecId(codecId) ==
    CASE codecId = <<65, 95, 86, 79, 82, 66, 73, 83>> -> <<118, 111, 114, 98, 105, 115>>
      [] codecId = <<65, 95, 79, 80, 85, 83>> -> <<111, 112, 117, 115>>
      [] codecId = <<65, 95, 65, 65, 67>> -> <<97, 97, 99>>
      [] codecId = <<65, 95, 77, 80, 69, 71, 47, 76, 51>> -> <<109, 112, 51>>
      [] codecId = <<65, 95, 80, 67, 77, 47, 73, 78, 84, 47, 76, 73, 84>> ->
            <<112, 99, 109>>
      [] OTHER -> codecId

\* a dimension of the Video element of a track entry, 0 without the elements
videoDimension(data, id) ==
    IF findElement(data, E_Video).found
    THEN readUintFromElement(findElement(findElement(data, E_Video).data, id))
    ELSE 0

\* WebMParser.parseVideoTrack, the frame rate aside
WebM_parseVideoTrack(track) ==
    [width |-> IF videoDimension(track.data, E_PixelWidth) = 0 THEN scanWidth(track.data)
               ELSE videoDimension(track.data, E_PixelWidth),
     height |-> IF videoDimension(track.data, E_PixelHeight) = 0
                THEN scanHeight(track.data)
                ELSE videoDimension(track.data, E_PixelHeight),
     codec |-> IF findElement(track.data, E_CodecID).found
               THEN mapCodecId(findElement(track.data, E_CodecID).data)
               ELSE <<>>]

\* The Duration payload as the parser reads it: which reading succeeds.
\* float32 and float64 succeed on a finite value above 0, the integer on a
\* value above 0; "none" is the error caught, which leaves duration 0.
PadStart(bytes, n) == [i \in 1..n |-> IF i <= n - Len(bytes) THEN 0
                                     ELSE bytes[i - (n - Len(bytes))]]

durationForm(durationData) ==
    LET Form(f, d) ==
            IF /\ Len(durationData) <= 4
               /\ f[1] < 128
               /\ (f[1] % 128) * 2 + (f[2] \div 128) # 255
               /\ ~(f[1] = 0 /\ f[2] = 0 /\ f[3] = 0 /\ f[4] = 0)
            THEN "float32"
            ELSE IF /\ Len(durationData) <= 8
                    /\ d[1] < 128
                    /\ (d[1] % 128) * 16 + (d[2] \div 16) # 2047
                    /\ \E i \in 1..8 : d[i] # 0
                 THEN "float64"
            ELSE IF ShiftIn(0, durationData, 0, Len(durationData)) > 0 THEN "int"
            ELSE "none"
    IN Form(PadStart(durationData, 4), PadStart(durationData, 8))

\* The duration of the result: 0, or the value read from `bytes` in the way
\* `form` names, times timescale / 1e9.
durationOf(durationElement, timescale) ==
    IF ~durationElement.found \/ durationForm(durationElement.data) = "none"
    THEN [form |-> "zero", bytes |-> <<>>, timescale |-> timescale]
    ELSE [form |-> durationForm(durationElement.data), bytes |-> durationElement.data,
          timescale |-> timescale]

infoDuration(info) ==
    IF ~info.found THEN [form |-> "zero", bytes |-> <<>>, timescale |-> 1000000]
    ELSE durationOf(findElement(info.data, E_Duration),
                    IF findElement(info.data, E_TimecodeScale).found
                    THEN readUintFromElement(findElement(info.data, E_TimecodeScale))
                    ELSE 1000000)

WebMDuration(segmentData) == infoDuration(findElement(segmentData, E_Info))

\* the container WebMParser.parse names: by the DocType of the EBML header
docTypeContainer(docType) ==
    IF docType.found /\ Trim(ToLowerCase(docType.data)) = S_matroska THEN "mkv"
    ELSE "webm"

\* MKVParser.MKV_ELEMENTS
E_PixelCropBottom == 21674
E_PixelCropTop == 21691
E_PixelCropLeft == 21708
E_PixelCropRight == 21725
E_AspectRatioType == 21683
E_StereoMode == 21432

\* MKVParser.parseCropValues: null when none of the four elements is found
NoCrop == [found |-> FALSE]

cropValue(element) == IF element.found THEN readUintFromElement(element) ELSE 0

cropValuesOf(cropTop, cropBottom, cropLeft, cropRight) ==
    IF ~cropTop.found /\ ~cropBottom.found /\ ~cropLeft.found /\ ~cropRight.found
    THEN NoCrop
    ELSE [found |-> TRUE, top |-> cropValue(cropTop), bottom |-> cropValue(cropBottom),
          left |-> cropValue(cropLeft), right |-> cropValue(cropRight)]

parseCropValues(videoData) ==
    cropValuesOf(findElement(videoData, E_PixelCropTop),
                 findElement(videoData, E_PixelCropBottom),
                 findElement(videoData, E_PixelCropLeft),
                 findElement(videoData, E_PixelCropRight))

RECURSIVE calculateGCD(_, _)
calculateGCD(a, b) == IF b = 0 THEN a ELSE calculateGCD(b, a % b)

\* the display sides after the crop values: unset (Null) without them
cropped(baseMetadata, cropValues) ==
    IF cropValues.found
    THEN [displayAspectWidth |-> baseMetadata.width - (cropValues.left + cropValues.right),
          displayAspectHeight |-> baseMetadata.height
                                    - (cropValues.top + cropValues.bottom)]
    ELSE [displayAspectWidth |-> Null, displayAspectHeight |-> Null]

applyAspectRatioType(aspectRatioType, baseMetadata, display) ==
    IF /\ aspectRatioType.found /\ Len(aspectRatioType.data) > 0
       /\ Bits(At(aspectRatioType.data, 0)) = 1
       /\ baseMetadata.width # 0 /\ baseMetadata.height # 0
    THEN [displayAspectWidth |->
              baseMetadata.width \div calculateGCD(baseMetadata.width, baseMetadata.height),
          displayAspectHeight |->
              baseMetadata.height \div calculateGCD(baseMetadata.width, baseMetadata.height)]
    ELSE display

applyStereoMode(stereoMode, baseMetadata, display) ==
    IF ~stereoMode.found \/ Len(stereoMode.data) = 0 THEN display
    ELSE IF Bits(At(stereoMode.data, 0)) = 1
         THEN [display EXCEPT !.displayAspectWidth = baseMetadata.width \div 2]
    ELSE IF Bits(At(stereoMode.data, 0)) \in {2, 3}
         THEN [display EXCEPT !.displayAspectHeight = baseMetadata.height \div 2]
    ELSE display

\* the display sides the override computes from the Video element
displayOf(baseMetadata, videoData) ==
    applyStereoMode(findElement(videoData, E_StereoMode), baseMetadata,
        applyAspectRatioType(findElement(videoData, E_AspectRatioType), baseMetadata,
            cropped(baseMetadata, parseCropValues(videoData))))

enhanced(baseMetadata, video) ==
    IF video.found THEN baseMetadata @@ displayOf(baseMetadata, video.data)
    ELSE baseMetadata

\* MKVParser.parseVideoTrack: the base metadata, with the display sides added
MKV_parseVideoTrack(track) ==
    enhanced(WebM_parseVideoTrack(track), findElement(track.data, E_Video))

\* this.parseVideoTrack, of the class the parser object belongs to
this_parseVideoTrack(parser, track) ==
    IF parser = "MKVParser" THEN MKV_parseVideoTrack(track)
    ELSE WebM_parseVideoTrack(track)

\* bitrate of parse: 0 unless the duration is above 0
roundedBitrate(length, duration) ==
    IF duration.form # "zero" /\ duration.timescale > 0
    THEN Quotient("round", length * 8, duration)
    ELSE Exactly(0)

\* The result WebMParser.parse assembles, the frame rate and the audio details
\* aside: parseAudioTrack answers hasAudio: true for every track
\* it is given.
WebMResult(data, container, segment, audioTrack, video) ==
    [ok |-> TRUE, container |-> container,
     width |-> video.width, height |-> video.height, rotation |-> 0,
     displayAspectWidth |-> video.width, displayAspectHeight |-> video.height,
     colorInfo |-> getDefaultColorInfo, codec |-> video.codec,
     hasAudio |-> audioTrack.status = "found",
     duration |-> WebMDuration(segment.data), fileSize |-> Len(data),
     bitrate |-> roundedBitrate(Len(data), WebMDuration(segment.data))]

\* parse from the tracks on
parseTracks(parser, data, container, segment, videoTrack, audioTrack) ==
    IF videoTrack.status = "hangs" THEN NeverReturns
    ELSE IF videoTrack.status \notin {"found", "none"} THEN Threw(videoTrack.status)
    ELSE IF audioTrack.status \notin {"found", "none"} THEN Threw(audioTrack.status)
    ELSE IF videoTrack.status = "none" THEN Threw("No video track found")
    ELSE WebMResult(data, container, segment, audioTrack,
                    this_parseVideoTrack(parser, videoTrack.track))

\* parse from the Segment element on
parseSegment(parser, data, container, second) ==
    IF second.threw THEN Threw("Cannot read VINT")
    ELSE IF ~second.element.found \/ second.element.id # E_Segment
         THEN Threw("No Segment element found")
    ELSE IF ~findTracksElement(second.element.data).found
         THEN Threw("No Tracks element found")
    ELSE parseTracks(parser, data, container, second.element,
                     WebM_findVideoTrack(findTracksElement(second.element.data).data),
                     WebM_findAudioTrack(findTracksElement(second.element.data).data))

\* parse from the EBML header on
parseHeader(parser, data, first) ==
    IF first.threw THEN Threw("Cannot read VINT")
    ELSE IF ~first.element.found \/ first.element.id # E_EBML
         THEN Threw("Not a valid WebM/MKV file")
    ELSE parseSegment(parser, data,
                      docTypeContainer(findEBMLHeaderElement(first.element.data,
                                                             E_DocType)),
                      readElement(data, first.next))

\* parse of a parser object of the class `parser`
parseAs(parser, data) == parseHeader(parser, data, readElement(data, 0))

WebMParser_parse(data) == parseAs("WebMParser", data)


-----------------------------------------------------------------------------
(* MKVParser (mkv-parser.ts) *)

\* MKVParser.parse: super.parse() on an MKVParser object, the container renamed
asMatroska(baseMetadata) ==
    IF baseMetadata.ok THEN [baseMetadata EXCEPT !.container = "mkv"]
    ELSE baseMetadata

MKVParser_parse(data) == asMatroska(parseAs("MKVParser", data))
-----------------------------------------------------------------------------
(* TSParser (ts-parser.ts) *)

PACKET_SIZE == 188
SYNC_BYTE == 71

verifyTSSync(data) ==
    \A i \in 0..4 : i * PACKET_SIZE >= Len(data) \/ At(data, i * PACKET_SIZE) = SYNC_BYTE

\* ((high & 0x1f) << 8) | low
Pid13(high, low) == (Bits(high) % 32) * 256 + Bits(low)

\* ((high & 0x0f) << 8) | low
Len12(high, low) == (Bits(high) % 16) * 256 + Bits(low)

\* The payload findPSIPackets takes from the packet at packetStart, <<>> for none.
\* AnyPid stands for the pid argument left out.
AnyPid == 0 - 1

psiPayload(data, packetStart, tableId, pid) ==
    LET flags == At(data, packetStart + 3)
        adaptationLength == IF HasBit(flags, 32) THEN At(data, packetStart + 4) + 1 ELSE 0
        payloadStart == packetStart + (IF HasBit(flags, 32) THEN 5 ELSE 4) + adaptationLength
        payloadLength == PACKET_SIZE - (payloadStart - packetStart)
    IN IF At(data, packetStart) # SYNC_BYTE THEN <<>>
       ELSE IF pid # AnyPid
               /\ Pid13(At(data, packetStart + 1), At(data, packetStart + 2)) # pid
            THEN <<>>
       ELSE IF ~HasBit(flags, 16) THEN <<>>
       ELSE IF payloadLength > 0 /\ At(data, payloadStart) = tableId
            THEN Slice(data, payloadStart, payloadStart + payloadLength)
       ELSE <<>>

RECURSIVE findPSIPacketsFrom(_, _, _, _, _)
findPSIPacketsFrom(data, offset, tableId, pid, packets) ==
    IF ~(offset + PACKET_SIZE <= Len(data)) THEN packets
    ELSE LET payload == psiPayload(data, offset, tableId, pid)
         IN findPSIPacketsFrom(data, offset + PACKET_SIZE, tableId, pid,
                IF payload = <<>> THEN packets ELSE Append(packets, payload))

findPSIPackets(data, tableId, pid) == findPSIPacketsFrom(data, 0, tableId, pid, <<>>)

\* the PMT pid one PAT section names: that of its first program with a number
\* other than 0; NoPid for none
NoPid == 0 - 2

patSectionPid(packet) ==
    LET sectionLength == Len12(At(packet, 1), At(packet, 2))
        programCount == (sectionLength - 9) \div 4
        named == {i \in 0..(programCount - 1) :
                     Bits(At(packet, 8 + i * 4)) * 256 + Bits(At(packet, 9 + i * 4)) # 0}
        i == CHOOSE n \in named : \A m \in named : n <= m
    IN IF named = {} THEN NoPid
       ELSE Pid13(At(packet, 10 + i * 4), At(packet, 11 + i * 4))

\* parsePAT: every section is read, a later one that names a pid replaces the
\* pid of an earlier one
RECURSIVE parsePATFrom(_, _, _)
parsePATFrom(packets, i, pmtPid) ==
    IF i > Len(packets) THEN pmtPid
    ELSE LET pid == patSectionPid(packets[i])
         IN parsePATFrom(packets, i + 1, IF pid = NoPid THEN pmtPid ELSE pid)

parsePAT(data) == parsePATFrom(findPSIPackets(data, 0, AnyPid), 1, NoPid)

isVideoStream(streamType) == streamType \in {1, 2, 16, 27, 36}

\* the first video stream of one PMT section: [videoPid, videoStreamType], or
\* NoStream
NoStream == [videoPid |-> NoPid, videoStreamType |-> 0 - 1]

RECURSIVE pmtSectionStream(_, _, _)
pmtSectionStream(packet, offset, sectionLength) ==
    IF ~(offset < sectionLength - 4) THEN NoStream
    ELSE IF isVideoStream(At(packet, offset))
         THEN [videoPid |-> Pid13(At(packet, offset + 1), At(packet, offset + 2)),
               videoStreamType |-> At(packet, offset)]
    ELSE pmtSectionStream(packet,
             offset + 5 + Len12(At(packet, offset + 3), At(packet, offset + 4)),
             sectionLength)

RECURSIVE parsePMTFrom(_, _)
parsePMTFrom(packets, i) ==
    IF i > Len(packets) THEN NoStream
    ELSE LET packet == packets[i]
             stream == pmtSectionStream(packet,
                           12 + Len12(At(packet, 10), At(packet, 11)),
                           Len12(At(packet, 1), At(packet, 2)))
         IN IF stream # NoStream THEN stream ELSE parsePMTFrom(packets, i + 1)

parsePMT(data, pmtPid) == parsePMTFrom(findPSIPackets(data, 2, pmtPid), 1)


\* parseNALUnits and findSPS together: the first bytes of the NAL units, which
\* is all findSPS reads.  `first` is the first byte of the unit being gathered,
\* Undef while it is empty; the last three bytes of a packet are never gathered.
RECURSIVE nalFirstBytes(_, _, _, _, _)
nalFirstBytes(packets, p, i, first, units) ==
    IF p > Len(packets) THEN (IF first = Undef THEN units ELSE units \cup {first})
    ELSE IF ~(i < Len(packets[p]) - 3) THEN nalFirstBytes(packets, p + 1, 0, first, units)
    ELSE IF At(packets[p], i) = 0 /\ At(packets[p], i + 1) = 0 /\ At(packets[p], i + 2) = 1
         THEN nalFirstBytes(packets, p, i + 3, Undef,
                            IF first = Undef THEN units ELSE units \cup {first})
    ELSE nalFirstBytes(packets, p, i + 1,
                       IF first = Undef THEN At(packets[p], i) ELSE first, units)

findSPS(nalFirsts, streamType) ==
    LET spsNalType == IF streamType = 36 THEN 33 ELSE 7
    IN \E b \in nalFirsts : b % 32 = spsNalType

\* the codec name, as its characters
streamTypeToCodec(streamType) ==
    CASE streamType = 27 -> FourCC.avc1
      [] streamType = 36 -> FourCC.hev1
      [] streamType = 16 -> FourCC.mp4v
      [] streamType = 2 -> <<109, 112, 50, 118>>
      [] streamType = 1 -> <<109, 112, 49, 118>>
      [] OTHER -> <<117, 110, 107, 110, 111, 119, 110>>

\* the metadata parseVideoStream returns, sps telling whether findSPS found one
streamMetadata(streamInfo, sps) ==
    [ok |-> TRUE, width |-> IF sps THEN 1920 ELSE 0,
     height |-> IF sps THEN 1080 ELSE 0, rotation |-> 0,
     displayAspectWidth |-> IF sps THEN 1920 ELSE 0,
     displayAspectHeight |-> IF sps THEN 1080 ELSE 0,
     codec |-> streamTypeToCodec(streamInfo.videoStreamType),
     colorInfo |-> getDefaultColorInfo]

parseVideoStream(data, streamInfo) ==
    IF streamInfo = NoStream THEN Threw("No video stream found")
    ELSE streamMetadata(streamInfo,
            findSPS(nalFirstBytes(findPSIPackets(data, 255, streamInfo.videoPid),
                                  1, 0, Undef, {}),
                    streamInfo.videoStreamType))

\* parseAudioStream is handed the {videoPid, videoStreamType} object, which has
\* no filter method: the TypeError is caught and the no-audio answer returned.
parseAudioStream(streamInfo) == noAudioInfo

getPid(data, offset) == Pid13(At(data, offset + 1), At(data, offset + 2))

\* getAdaptationField(offset) is not null
hasAdaptationField(data, offset) ==
    HasBit(At(data, offset + 3), 32) /\ At(data, offset + 4) # 0

\* getPCR(offset) is not null: the adaptation field is there with its PCR flag
hasPCR(data, offset) == hasAdaptationField(data, offset) /\ HasBit(At(data, offset + 5), 16)

\* getPCR(offset) = hi * 2 ** 25 + lo; NaN where a byte it multiplies is undefined
getPCR(data, offset) ==
    [nan |-> \E k \in 6..9 : At(data, offset + k) = Undef,
     hi |-> Bits(At(data, offset + 6)),
     lo |-> Bits(At(data, offset + 7)) * 131072 + Bits(At(data, offset + 8)) * 512
            + Bits(At(data, offset + 9)) * 2
            + (IF HasBit(At(data, offset + 10), 128) THEN 1 ELSE 0)]

pcrScanLimit == 940

calculateDuration(data) ==
    LET length == Len(data)
        pcrPids == {getPid(data, k * PACKET_SIZE) :
                       k \in {j \in 0..4 : /\ j * PACKET_SIZE < length
                                           /\ j * PACKET_SIZE < pcrScanLimit
                                           /\ hasPCR(data, j * PACKET_SIZE)}}
        Carries(offset) == getPid(data, offset) \in pcrPids /\ hasPCR(data, offset)
        forward == {k \in 0..((length - 1) \div PACKET_SIZE) : Carries(k * PACKET_SIZE)}
        backward == {k \in 1..(length \div PACKET_SIZE) :
                        Carries(length - k * PACKET_SIZE)}
        firstPCR == getPCR(data, PACKET_SIZE * (CHOOSE k \in forward :
                                                   \A j \in forward : k <= j))
        lastPCR == getPCR(data, length - PACKET_SIZE * (CHOOSE k \in backward :
                                                   \A j \in backward : k <= j))
    IN IF forward # {} /\ backward # {}
       THEN IF firstPCR.nan \/ lastPCR.nan THEN Ticks(0, 0, 0)
            ELSE Ticks(lastPCR.hi - firstPCR.hi, lastPCR.lo - firstPCR.lo, 90000)
       ELSE Num(0, (length * 8) \div 10000000, 1)

\* the result TSParser.parse assembles
TSResult(data, videoMetadata, audioInfo) ==
    IF ~videoMetadata.ok THEN videoMetadata
    ELSE [ok |-> TRUE, container |-> "ts",
          width |-> videoMetadata.width, height |-> videoMetadata.height,
          rotation |-> videoMetadata.rotation,
          displayAspectWidth |-> videoMetadata.displayAspectWidth,
          displayAspectHeight |-> videoMetadata.displayAspectHeight,
          colorInfo |-> videoMetadata.colorInfo, codec |-> videoMetadata.codec,
          hasAudio |-> audioInfo.hasAudio,
          audioChannels |-> audioInfo.audioChannels,
          audioSampleRate |-> audioInfo.audioSampleRate,
          audioCodec |-> audioInfo.audioCodec,
          duration |-> calculateDuration(data), fileSize |-> Len(data),
          bitrate |-> IF Truthy(calculateDuration(data))
                      THEN Quotient("floor", Len(data) * 8, calculateDuration(data))
                      ELSE NoRate]

\* parse from the stream information of the PMT on
parseStreams(data, streamInfo) ==
    TSResult(data, parseVideoStream(data, streamInfo), parseAudioStream(streamInfo))

\* parse from the PMT pid on
parseProgram(data, pmtPid) ==
    IF pmtPid = NoPid \/ pmtPid = 0 THEN Threw("No PMT PID found")
    ELSE parseStreams(data, parsePMT(data, pmtPid))

TSParser_parse(data) ==
    IF ~verifyTSSync(data) THEN Threw("Not a valid Transport Stream")
    ELSE parseProgram(data, parsePAT(data))
-----------------------------------------------------------------------------
(* VideoContainerParser (video-container-parser.ts) *)

SIG_MP4 == <<102, 116, 121, 112>>
SIG_WEBM == <<26, 69, 223, 163>>
SIG_MOV == <<109, 111, 111, 118>>
SIG_AVI == <<82, 73, 70, 70>>

headerLength == 32

matchSignature(bytes, offset, signature) ==
    \A i \in 1..Len(signature) : At(bytes, offset + i - 1) = signature[i]

isTransportStream(bytes) ==
    At(bytes, 0) = 71 /\ At(bytes, 188) = 71 /\ At(bytes, 376) = 71

isMatroska(bytes) ==
    LET First(hits) ==
            /\ hits # {}
            /\ Includes(Slice(bytes, (CHOOSE o \in hits : \A k \in hits : o <= k) + 2,
                              (CHOOSE o \in hits : \A k \in hits : o <= k) + 10),
                        S_matroska)
    IN First({o \in 4..(Len(bytes) - 9) : At(bytes, o) = 66 /\ At(bytes, o + 1) = 130})

detectContainer(bytes) ==
    LET At1(offset) ==
            IF matchSignature(bytes, offset, SIG_MP4) THEN "mp4"
            ELSE IF matchSignature(bytes, offset, SIG_MOV) THEN "mov"
            ELSE "avi"
        First(hits) ==
            IF isTransportStream(bytes) THEN "ts"
            ELSE IF hits # {} THEN At1(CHOOSE o \in hits : \A k \in hits : o <= k)
            ELSE IF matchSignature(bytes, 0, SIG_WEBM)
                 THEN IF isMatroska(bytes) THEN "mkv" ELSE "webm"
            ELSE "unknown"
    IN First({o \in 0..(Len(bytes) - 9) :
                 \/ matchSignature(bytes, o, SIG_MP4)
                 \/ matchSignature(bytes, o, SIG_MOV)
                 \/ matchSignature(bytes, o, SIG_AVI)})

\* a switch whose default branch falls back on the MP4 parser
parserOf_mp4Default(container) ==
    CASE container = "mov" -> "MOVParser"
      [] container = "webm" -> "WebMParser"
      [] container = "mkv" -> "MKVParser"
      [] container = "ts" -> "TSParser"
      [] OTHER -> "MP4Parser"

\* the parser class the switch of parseContainer constructs for a container,
\* "none" for its default branch
parserOf(container) ==
    CASE container = "mp4" -> "MP4Parser"
      [] container = "mov" -> "MOVParser"
      [] container = "webm" -> "WebMParser"
      [] container = "mkv" -> "MKVParser"
      [] container = "ts" -> "TSParser"
      [] OTHER -> "none"

runParser(parser, bytes) ==
    CASE parser = "MP4Parser" -> MP4Parser_parse(bytes)
      [] parser = "MOVParser" -> MOVParser_parse(bytes)
      [] parser = "WebMParser" -> WebMParser_parse(bytes)
      [] parser = "MKVParser" -> MKVParser_parse(bytes)
      [] parser = "TSParser" -> TSParser_parse(bytes)
      [] OTHER -> Threw("Unsupported container format")

\* the error of a parser wrapped by the catch block of parseContainer
wrapFailure(container, parsed) ==
    IF parsed.ok \/ parsed = NeverReturns THEN parsed
    ELSE Threw("Failed to parse " \o container \o " container: " \o parsed.error)

parseDetected(container, file) ==
    wrapFailure(container, runParser(parserOf(container), file))

parseContainer(file) == parseDetected(detectContainer(Slice(file, 0, headerLength)), file)

-----------------------------------------------------------------------------
(* getVideoInfo (ExpoVideoMetadataModule.web.ts) *)

\* a property of an object, undefined when the object has none of the name
Undefined == "<undefined>"
Get(object, name) == IF name \in DOMAIN object THEN object[name] ELSE Undefined

\* metadata.duration in a condition: undefined, 0 and NaN are false
hasDuration(metadata) ==
    /\ "duration" \in DOMAIN metadata
    /\ IF "den" \in DOMAIN metadata.duration THEN Truthy(metadata.duration)
       ELSE metadata.duration.form # "zero" /\ metadata.duration.timescale # 0

\* fileSize && metadata.duration ? Math.floor(fileSize * 8 / metadata.duration) : 0
fallbackBitRate(fileSize, metadata) ==
    IF fileSize # 0 /\ hasDuration(metadata)
    THEN Quotient("floor", fileSize * 8, metadata.duration)
    ELSE Exactly(0)

\* metadata.bitrate || fallback.  A quotient that comes to 0 is kept as it is:
\* the fallback is then the floor of the same quotient, 0 as well.
bitRateOf(fileSize, metadata) ==
    IF "bitrate" \in DOMAIN metadata /\ metadata.bitrate \notin {NoRate, Exactly(0)}
    THEN metadata.bitrate
    ELSE fallbackBitRate(fileSize, metadata)

\* getVideoInfo for a File or Blob source; fps, aspectRatio, is16_9 and
\* the audio details aside.  isHDR is "true", "false" or Null; a codec is the
\* sequence of its characters, <<>> the empty string.
videoInfoOf(file, metadata) ==
    IF metadata = NeverReturns THEN NeverReturns
    ELSE IF ~metadata.ok THEN Threw("Failed to parse video: " \o metadata.error)
    ELSE [ok |-> TRUE,
          duration |-> Get(metadata, "duration"),
          width |-> metadata.width, height |-> metadata.height,
          bitRate |-> bitRateOf(Len(file), metadata),
          fileSize |-> Len(file),
          hasAudio |-> Get(metadata, "hasAudio"),
          isHDR |-> IF "colorInfo" \in DOMAIN metadata
                    THEN (IF isHdr(metadata.colorInfo) THEN "true" ELSE "false")
                    ELSE Null,
          codec |-> IF "codec" \in DOMAIN metadata THEN metadata.codec ELSE <<>>,
          orientation |-> getOrientationFromMatrix(metadata.rotation,
                                                   metadata.width, metadata.height),
          naturalOrientation |-> IF metadata.height > metadata.width
                                 THEN "Portrait" ELSE "Landscape"]

getVideoInfo(file) == videoInfoOf(file, parseContainer(file))

-----------------------------------------------------------------------------
(* Inputs: files built byte by byte from a description of what they hold *)

Zeros(n) == [i \in 1..n |-> 0]
Filler(n) == [i \in 1..n |-> 255]
U16(n) == <<n \div 256, n % 256>>
U32(n) == <<n \div 16777216, (n \div 65536) % 256, (n \div 256) % 256, n % 256>>

\* an ISO box: 32-bit size, type, payload
Box(type, payload) == U32(Len(payload) + 8) \o type \o payload

\* 16.16 and 32-bit fields as their four bytes
One == <<0, 1, 0, 0>>
MinusOne == <<255, 255, 0, 0>>
Zero == <<0, 0, 0, 0>>
TopBit == <<128, 0, 0, 0>>

\* the 3x3 matrix of a tkhd for a rotation
MatrixOf(rotation) ==
    LET tail == Zero \o Zero \o Zero \o <<64, 0, 0, 0>>
    IN CASE rotation = 90 -> Zero \o One \o Zero \o MinusOne \o Zero \o tail
         [] rotation = 180 -> MinusOne \o Zero \o Zero \o Zero \o MinusOne \o tail
         [] rotation = 270 -> Zero \o MinusOne \o Zero \o One \o Zero \o tail
         [] OTHER -> One \o Zero \o Zero \o Zero \o One \o tail

\* matrices that are no rotation by a right angle: a transposition, a
\* mirroring, a half turn scaled by 2, a rotation by 45 degrees
OtherMatrices == {"transposed", "mirrored", "scaled", "diagonal"}

MatrixFor(d) ==
    LET tail == Zero \o Zero \o Zero \o <<64, 0, 0, 0>>
    IN CASE d.matrix = "transposed" -> Zero \o One \o Zero \o One \o Zero \o tail
         [] d.matrix = "mirrored" -> MinusOne \o Zero \o Zero \o Zero \o One \o tail
         [] d.matrix = "scaled" ->
                <<255, 254, 0, 0>> \o Zero \o Zero \o Zero \o <<255, 254, 0, 0>> \o tail
         [] d.matrix = "diagonal" ->
                <<0, 0, 181, 5>> \o <<0, 0, 181, 5>> \o Zero \o <<255, 255, 74, 251>>
                \o <<0, 0, 181, 5>> \o tail
         [] OTHER -> MatrixOf(d.rotation)

Tkhd(trackId, matrix, width, height) ==
    Box(FourCC.tkhd, Zeros(12) \o U32(trackId) \o Zeros(24) \o matrix
                \o width \o height)

Hdlr(handler) == Box(FourCC.hdlr, Zeros(8) \o handler \o Zeros(12))

MdhdKinds ==
    {"plain", "none", "zeroScale", "zeroBoth", "topDuration", "topScale",
     "long", "longest"}

\* version 0: timescale, duration; version 1: timescale, 64-bit duration
Mdhd(kind) ==
    LET v0(timescale, duration) ==
            Box(FourCC.mdhd, Zero \o Zeros(8) \o timescale \o duration \o Zero)
        v1(timescale, high, low) ==
            Box(FourCC.mdhd, <<1, 0, 0, 0>> \o Zeros(16) \o timescale \o high \o low \o Zero)
    IN CASE kind = "plain" -> v0(U32(1000), U32(5000))
         [] kind = "zeroScale" -> v0(Zero, U32(5000))
         [] kind = "zeroBoth" -> v0(Zero, Zero)
         [] kind = "topDuration" -> v0(U32(1000), TopBit)
         [] kind = "topScale" -> v0(TopBit, U32(5000))
         [] kind = "long" -> v1(U32(1000), U32(1), U32(5000))
         [] kind = "longest" -> v1(U32(1), <<0, 32, 0, 0>>, Zero)
         [] OTHER -> <<>>

ColourKinds == {"none", "avcC", "hdr10", "hlg", "sdr", "dolby", "unmapped"}

Colr(primaries, transfer, matrix) ==
    Box(FourCC.colr, FourCC.nclx \o U16(primaries) \o U16(transfer) \o U16(matrix) \o <<128>>)

\* an HEVC configuration of general_profile_idc 2 (Main 10)
HvcC == Box(FourCC.hvcC, <<1, 34>> \o Zeros(21))

\* a mastering display colour volume of 1000 nits: primaries, white point,
\* maximum and minimum luminance in 0.0001 nits
Mdcv == Box(FourCC.mdcv, Zeros(16) \o U32(10000000) \o U32(50))

\* a content light level box: maxCLL and maxFALL in nits
Clli(maxCLL) == Box(FourCC.clli, U16(maxCLL) \o U16(maxCLL \div 10))

\* sample entries with several colour boxes
SelectionKinds ==
    {"hvcC+avcC", "colr+hvcC", "unknown-colr+hvcC", "mdcv+hvcC", "sdr+bright", "sdr+dim",
     "bright", "hdr10+dim"}

\* the child boxes of the avc1 sample entry
ColourBoxes(kind) ==
    LET avcC == Box(FourCC.avcC, <<1, 100, 0, 31, 255, 225>>)
    IN CASE kind = "avcC" -> avcC
         [] kind = "hdr10" -> avcC \o Colr(9, 16, 9)
         [] kind = "hlg" -> avcC \o Colr(9, 18, 9)
         [] kind = "sdr" -> avcC \o Colr(1, 1, 1)
         [] kind = "dolby" -> avcC \o Colr(1, 16, 14)
         [] kind = "unmapped" -> avcC \o Colr(0, 0, 3)
         [] kind = "hvcC+avcC" -> avcC \o HvcC
         [] kind = "colr+hvcC" -> avcC \o Colr(1, 1, 1) \o HvcC
         [] kind = "unknown-colr+hvcC" -> HvcC \o Box(FourCC.colr, FourCC.nclc \o U16(3) \o U16(3) \o U16(3))
         [] kind = "mdcv+hvcC" -> HvcC \o Mdcv
         [] kind = "sdr+bright" -> avcC \o Colr(1, 1, 1) \o Clli(4000)
         [] kind = "sdr+dim" -> avcC \o Colr(1, 1, 1) \o Clli(400)
         [] kind = "bright" -> Clli(4000)
         [] kind = "hdr10+dim" -> Colr(9, 16, 9) \o Clli(400)
         [] OTHER -> <<>>

Stsd(entry) == Box(FourCC.stsd, Zero \o U32(1) \o entry)

Trak(trackId, matrix, width, height, handler, mdhd, entry, apertures) ==
    Box(FourCC.trak, Tkhd(trackId, matrix, width, height) \o apertures
                \o Box(FourCC.mdia, Mdhd(mdhd) \o Hdlr(handler)
                               \o Box(FourCC.minf, Box(FourCC.stbl, Stsd(entry)))))

\* QuickTime apertures: the clean aperture 638 x 358 of the sample entry, and
\* the track aperture mode dimensions whose clef (version, flags, two 16.16
\* numbers) says 636 x 356
Clap == Box(FourCC.clap, U32(638) \o U32(1) \o U32(358) \o U32(1) \o U32(0) \o U32(1)
                         \o U32(0) \o U32(1))

Tapt == Box(FourCC.tapt, Box(FourCC.clef, Zero \o <<2, 124, 0, 0>> \o <<1, 100, 0, 0>>))

\* the bit rate box of a sample entry: buffer size, maximum, average 1000000
Btrt == Box(FourCC.btrt, U32(0) \o U32(1200000) \o U32(1000000))

VideoTrak(d) ==
    Trak(1, MatrixFor(d), d.width, d.height, FourCC.vide, d.mdhd,
         Box(FourCC[d.entry], Zeros(78) \o ColourBoxes(d.colour)
                          \o (IF d.btrt THEN Btrt ELSE <<>>)
                          \o (IF d.aperture \in {"clap", "both"} THEN Clap ELSE <<>>)),
         IF d.aperture = "both" THEN Tapt ELSE <<>>)

\* an mp4a entry: 2 channels, 48000 Hz, an esds naming AAC
AudioEntry ==
    Box(FourCC.mp4a, Zeros(16) \o U16(2) \o Zeros(6) \o U16(48000) \o Zeros(2)
                \o Box(<<101, 115, 100, 115>>,
                       Zero \o <<3, 128, 128, 128, 34, 0, 2, 0>>
                            \o <<4, 128, 128, 128, 20, 64, 21>> \o Zeros(12)))

\* an ac-3 entry: 6 channels, 48000 Hz, its dac3 box
Ac3Entry ==
    Box(<<97, 99, 45, 51>>, Zeros(16) \o U16(6) \o Zeros(6) \o U16(48000) \o Zeros(2)
                \o Box(<<100, 97, 99, 51>>, <<16, 61, 192>>))

AudioTrak(d) ==
    Trak(2, MatrixOf(0), Zero, Zero, FourCC.soun, d.mdhd,
         IF d.tracks = "both-ac3" THEN Ac3Entry ELSE AudioEntry, <<>>)

\* a trak of two free boxes, the second with the size field FF FF FF F0 (-16)
BackwardsTrak ==
    Box(FourCC.trak, Box(<<102, 114, 101, 101>>, Zeros(8))
                     \o <<255, 255, 255, 240, 102, 114, 101, 101>> \o Zeros(8))

\* the movie-extends box of a fragmented file, its trex naming track 2
Mvex == Box(FourCC.mvex, Box(FourCC.trex, Zero \o U32(2) \o Zeros(16)))

Ftyp == Box(SIG_MP4, <<105, 115, 111, 109, 0, 0, 2, 0, 105, 115, 111, 109>>)

\* an MP4 file: ftyp, then moov with the tracks the description lists
MP4File(d) ==
    Ftyp \o Box(FourCC.moov,
                (IF d.tracks \in {"video", "both", "both-ac3"} THEN VideoTrak(d) ELSE <<>>)
                \o (IF d.tracks = "backwards" THEN BackwardsTrak ELSE <<>>)
                \o (IF d.tracks \in {"audio", "both", "both-ac3"}
                    THEN AudioTrak(d) ELSE <<>>)
                \o (IF d.fragmented THEN Mvex ELSE <<>>))

\* 16.16 dimensions: 0, 640, 360, 360.5, -32768 and -0.5 as the code reads them
Fixed32 ==
    {Zero, <<2, 128, 0, 0>>, <<1, 104, 0, 0>>, <<1, 104, 128, 0>>, TopBit,
     <<255, 255, 128, 0>>}

PlainMP4 ==
    [kind |-> "mp4", tracks |-> "both", fragmented |-> FALSE,
     width |-> <<2, 128, 0, 0>>, height |-> <<1, 104, 0, 0>>, rotation |-> 0,
     mdhd |-> "plain", colour |-> "none", aperture |-> "none", btrt |-> FALSE,
     entry |-> "avc1", matrix |-> "rotation"]

\* the sample entry types parseVideoTrack looks for
EntryTypes == {"avc1", "hev1", "hvc1", "mp4v", "vp08", "vp09", "av01"}

MP4Files ==
    {[PlainMP4 EXCEPT !.width = w, !.height = h, !.tracks = t] :
        w \in Fixed32, h \in Fixed32, t \in {"video", "both"}}
    \cup {[PlainMP4 EXCEPT !.rotation = r, !.mdhd = m] :
            r \in {0, 90, 180, 270}, m \in MdhdKinds}
    \cup {[PlainMP4 EXCEPT !.rotation = r, !.colour = c, !.height = h] :
            r \in {0, 180}, c \in ColourKinds,
            h \in {<<1, 104, 0, 0>>, <<4, 0, 0, 0>>}}
    \cup {[PlainMP4 EXCEPT !.tracks = t, !.fragmented = f, !.mdhd = m] :
            t \in {"audio", "none", "both", "both-ac3"}, f \in BOOLEAN,
            m \in {"plain", "none"}}
    \cup {[PlainMP4 EXCEPT !.tracks = t, !.btrt = TRUE] : t \in {"video", "both"}}
    \cup {[PlainMP4 EXCEPT !.tracks = "backwards"]}
    \cup {[PlainMP4 EXCEPT !.colour = c, !.tracks = t] :
            c \in SelectionKinds, t \in {"video", "both"}}
    \cup {[PlainMP4 EXCEPT !.matrix = m, !.tracks = t] :
            m \in OtherMatrices, t \in {"video", "both"}}
    \cup {[PlainMP4 EXCEPT !.entry = e, !.colour = "hdr10", !.btrt = TRUE, !.tracks = t] :
            e \in EntryTypes, t \in {"video", "both"}}

\* a QuickTime file as written by a recorder: moov first, no ftyp
MOVFiles ==
    {[kind |-> "mov", tracks |-> t, fragmented |-> FALSE, width |-> w,
      height |-> <<1, 104, 0, 0>>, rotation |-> r, mdhd |-> "plain", colour |-> c,
      aperture |-> "none", btrt |-> FALSE, entry |-> "avc1", matrix |-> "rotation"] :
        t \in {"video", "both", "audio"}, w \in {<<2, 128, 0, 0>>, TopBit},
        r \in {0, 90}, c \in {"none", "hdr10"}}
    \cup {[kind |-> "mov", tracks |-> t, fragmented |-> FALSE,
           width |-> <<2, 128, 0, 0>>, height |-> <<1, 104, 0, 0>>, rotation |-> 0,
           mdhd |-> "plain", colour |-> c, aperture |-> a, btrt |-> FALSE, entry |-> "avc1", matrix |-> "rotation"] :
            t \in {"video", "both"}, c \in {"none", "hdr10"}, a \in {"clap", "both"}}

MOVFile(d) == SubSeq(MP4File(d), Len(Ftyp) + 1, Len(MP4File(d)))

\* an EBML size of one byte (below 127) and of two bytes
Size1(n) == <<128 + n>>
Size2(n) == <<64 + (n \div 256), n % 256>>

Ebml1(id, payload) == id \o Size1(Len(payload)) \o payload
Ebml2(id, payload) == id \o Size2(Len(payload)) \o payload

S_webm == <<119, 101, 98, 109>>
S_V_VP9 == <<86, 95, 86, 80, 57>>
S_A_OPUS == <<65, 95, 79, 80, 85, 83>>

DocTypes == {"matroska", "webm", "bare-matroska", "none"}

\* the DocType element: id 42 82, one size byte, the name; "bare-matroska" is
\* a damaged header where the name follows the id directly
DocTypeElement(docType) ==
    CASE docType = "matroska" -> Ebml1(<<66, 130>>, S_matroska)
      [] docType = "webm" -> Ebml1(<<66, 130>>, S_webm)
      [] docType = "bare-matroska" -> <<66, 130>> \o S_matroska
      [] OTHER -> <<>>

EbmlHeader(docType) ==
    Ebml1(SIG_WEBM, DocTypeElement(docType) \o <<66, 135, 129, 2, 66, 133, 129, 2>>)

DurationKinds == {"none", "seconds", "zero", "integer"}

\* Info: TimecodeScale 1000000 and a Duration
Info(kind) ==
    Ebml1(<<21, 73, 169, 102>>,
          <<42, 215, 177, 131, 15, 66, 64>>
          \o (CASE kind = "seconds" -> <<68, 137, 132, 70, 28, 64, 0>>
                [] kind = "zero" -> <<68, 137, 132, 0, 0, 0, 0>>
                [] kind = "integer" -> <<68, 137, 132, 255, 0, 0, 1>>
                [] OTHER -> <<>>))

\* a video TrackEntry; PixelCropBottom (54 AA) follows the sides when not 0
VideoEntry(d) ==
    Ebml1(<<174>>, <<215, 129, 1, 131, 129, 1>> \o Ebml1(<<134>>, S_V_VP9)
                   \o Ebml1(<<224>>, <<176, 130>> \o U16(d.width)
                                     \o <<186, 130>> \o U16(d.height)
                                     \o (IF d.crop = 0 THEN <<>>
                                         ELSE <<84, 170, 129, d.crop>>)))

AudioEntryWebM ==
    Ebml1(<<174>>, <<215, 129, 2, 131, 129, 2>> \o Ebml1(<<134>>, S_A_OPUS)
                   \o Ebml1(<<225>>, <<159, 129, 2>>))

TrackEntries(d) ==
    CASE d.tracks = "video" -> VideoEntry(d)
      [] d.tracks = "both" -> VideoEntry(d) \o AudioEntryWebM
      [] d.tracks = "audio-first" -> AudioEntryWebM \o VideoEntry(d)
      [] d.tracks = "audio" -> AudioEntryWebM
      [] OTHER -> <<>>

\* a WebM / Matroska file: EBML header, Segment holding Info and Tracks
WebMFile(d) ==
    EbmlHeader(d.docType)
    \o Ebml2(<<24, 83, 128, 103>>,
             Info(d.duration) \o Ebml1(<<22, 84, 174, 107>>, TrackEntries(d)))

PlainWebM ==
    [kind |-> "webm", docType |-> "webm", tracks |-> "both", width |-> 1280,
     height |-> 720, duration |-> "seconds", crop |-> 0]

WebMFiles ==
    {[PlainWebM EXCEPT !.docType = t, !.tracks = k] :
        t \in DocTypes, k \in {"video", "both", "audio-first", "audio", "none"}}
    \cup {[PlainWebM EXCEPT !.docType = t, !.width = w, !.height = h, !.duration = u] :
            t \in {"matroska", "webm"}, w \in {0, 320, 1280}, h \in {0, 720},
            u \in DurationKinds}
    \cup {[PlainWebM EXCEPT !.docType = t, !.tracks = k, !.width = 1920,
                            !.height = 1088, !.crop = 8] :
            t \in {"matroska", "webm"}, k \in {"video", "both"}}

\* the five bytes of a clock reference: 33 bits, the last in the top of byte 5
PCRs ==
    {<<0, 0, 0, 0, 0>>, <<0, 1, 0, 0, 0>>, <<0, 10, 0, 0, 128>>,
     <<128, 0, 0, 0, 0>>, <<255, 255, 255, 255, 128>>}

\* a transport packet: sync byte, pid, flags, body, stuffing
Packet(pid, flags, body) ==
    LET head == <<71, pid \div 256, pid % 256, flags>> \o body
    IN head \o Filler(PACKET_SIZE - Len(head))

\* Tables laid out as the parser reads them: the table id first in the payload.
PatPacket ==
    Packet(0, 16, <<0, 176, 13, 0, 1, 193, 0, 0, 0, 1, 225, 0>>)

PmtPacket ==
    Packet(256, 16, <<2, 176, 18, 0, 1, 193, 0, 0, 225, 1, 240, 0, 27, 225, 1, 240, 0>>)

\* the same table with an AAC audio stream (type 0x0f, pid 258) after the video
PmtPacketWithAudio ==
    Packet(256, 16, <<2, 176, 23, 0, 1, 193, 0, 0, 225, 1, 240, 0, 27, 225, 1, 240, 0,
                      15, 225, 2, 240, 0>>)

\* a video packet with a clock reference in its adaptation field, or with no
\* adaptation field at all when pcr is NoPCR; the payload opens a parameter-set
\* unit when sps
NoPCR == <<>>

VideoPacket(pcr, sps) ==
    IF pcr = NoPCR
    THEN Packet(257, 16, IF sps THEN <<0, 0, 1, 103, 100>> ELSE <<0, 0, 1, 65, 100>>)
    ELSE Packet(257, 48, <<7, 16>> \o pcr \o <<0, 255>>
                         \o (IF sps THEN <<0, 0, 1, 103, 100>> ELSE <<0, 0, 1, 65, 100>>))

NullPacket == Packet(8191, 16, <<>>)

RECURSIVE Stuffing(_)
Stuffing(n) == IF n <= 0 THEN <<>> ELSE NullPacket \o Stuffing(n - 1)

\* packets between the first and the last clock reference
MaxStuffing == 1

TSFile(d) ==
    (IF d.tables = "no-pat" THEN NullPacket ELSE PatPacket)
    \o (IF d.tables = "no-pmt" THEN NullPacket
        ELSE IF d.audio THEN PmtPacketWithAudio ELSE PmtPacket)
    \o VideoPacket(d.first, d.sps)
    \o Stuffing(d.stuffing)
    \o VideoPacket(d.last, FALSE)

TSFiles ==
    {[kind |-> "ts", tables |-> "ok", sps |-> s, first |-> f, last |-> l,
      stuffing |-> n, audio |-> FALSE] :
        s \in BOOLEAN, f \in PCRs, l \in PCRs, n \in 0..MaxStuffing}
    \cup {[kind |-> "ts", tables |-> t, sps |-> TRUE, first |-> <<0, 0, 0, 0, 0>>,
           last |-> <<0, 1, 0, 0, 0>>, stuffing |-> n, audio |-> FALSE] :
            t \in {"no-pat", "no-pmt"}, n \in 0..MaxStuffing}
    \cup {[kind |-> "ts", tables |-> "ok", sps |-> TRUE, first |-> f,
           last |-> f, stuffing |-> n, audio |-> a] :
            f \in {NoPCR, <<0, 1, 0, 0, 0>>}, n \in 0..MaxStuffing, a \in BOOLEAN}

S_AVI == <<65, 86, 73, 32>>
S_LIST == <<76, 73, 83, 84>>

\* little-endian 32-bit, as RIFF writes sizes
L32(n) == <<n % 256, (n \div 256) % 256, (n \div 65536) % 256, n \div 16777216>>

Chunk(id, payload) == id \o L32(Len(payload)) \o payload

\* an AVI file: RIFF 'AVI ', the hdrl list with avih and one video stream
AVIFile(d) ==
    LET avih == Chunk(<<97, 118, 105, 104>>,
                      Zeros(32) \o L32(d.width) \o L32(d.height) \o Zeros(16))
        strh == Chunk(<<115, 116, 114, 104>>,
                      <<118, 105, 100, 115>> \o <<72, 50, 54, 52>> \o Zeros(48))
        strl == Chunk(S_LIST, <<115, 116, 114, 108>> \o strh)
        hdrl == Chunk(S_LIST, <<104, 100, 114, 108>> \o avih \o strl)
    IN Chunk(SIG_AVI, S_AVI \o hdrl)

AVIFiles == {[kind |-> "avi", width |-> w, height |-> h] : w \in {320, 1920}, h \in {240, 1080}}

\* Files of no container: nothing but padding, text, or a marker too late or
\* too damaged to count.
MaxPadding == 40

OtherFiles ==
    {[kind |-> "other", marker |-> m, at |-> a, length |-> n] :
        m \in {"none", "ftyp", "moov", "RIFF", "EBML"},
        a \in {1, 24, 29, 33},
        n \in {0, 3, 8, 32, MaxPadding}}

MarkerOf(marker) ==
    CASE marker = "ftyp" -> SIG_MP4 [] marker = "moov" -> SIG_MOV
      [] marker = "RIFF" -> SIG_AVI [] marker = "EBML" -> SIG_WEBM
      [] OTHER -> <<>>

\* `length` bytes of text with the marker written over them at `at`, where it fits
OtherFile(d) ==
    [i \in 1..d.length |->
        IF d.marker # "none" /\ i > d.at /\ i <= d.at + 4 /\ d.at + 4 <= d.length
        THEN MarkerOf(d.marker)[i - d.at] ELSE 97 + (i % 7)]

\* the payloads the colour parsers are given, whole; a descriptor names one
\* and how many of its bytes are passed
ColourData(form) ==
    CASE form = "nclx" -> FourCC.nclx \o U16(9) \o U16(16) \o U16(9) \o <<128>>
      [] form = "nclc" -> FourCC.nclc \o U16(1) \o U16(1) \o U16(1)
      [] form = "mdcv" -> FourCC.mdcv \o Zeros(32) \o U32(10000000) \o U32(1)
      [] form = "clli" -> FourCC.clli \o U16(4000) \o U16(400)
      [] form = "dovi" -> FourCC.dovi \o <<5, 6, 1, 0, 1>>
      [] form = "rICC" -> FourCC.rICC
      [] form = "hvcC" -> <<1, 34, 0, 64, 0, 0, 0, 0, 93>>
      [] form = "avcC" -> <<1, 100, 0, 40>>
      [] form = "av1C" -> <<1, 129, 0, 4>>
      [] form = "vpcC" -> <<1, 145, 10, 4>>
      [] form = "text" -> <<120, 120, 120, 120, 0>>
      \* a Colour element: MatrixCoefficients, Primaries, TransferCharacteristics
      [] form = "colour" -> <<85, 177, 129, 9, 85, 186, 129, 9, 85, 185, 129, 16>>
      \* MatrixCoefficients with its id in three bytes, then Primaries of size 0
      [] form = "coded" -> <<32, 85, 177, 129, 9, 32, 85, 186, 128>>
      \* an empty element, then one whose five-byte size has its top bit set
      [] form = "negative" -> <<128, 128, 129, 8, 255, 255, 255, 250>>

MP4ColourForms ==
    {"nclx", "nclc", "mdcv", "clli", "dovi", "rICC", "hvcC", "avcC", "av1C", "vpcC", "text"}

WebMColourForms == {"colour", "coded", "negative"}

ColourInputs(forms) ==
    UNION {{[kind |-> "colour", form |-> f, length |-> n] : n \in 0..Len(ColourData(f))} :
            f \in forms}

\* payloads of a Tracks element, whole; a descriptor names one and how many
\* of its bytes are passed
TracksData(form) ==
    CASE form = "video" -> VideoEntry(PlainWebM)
      [] form = "audio-video" -> AudioEntryWebM \o VideoEntry(PlainWebM)
      \* an empty element, then one whose five-byte size has its top bit set
      [] form = "negative" -> <<128, 128, 129, 8, 255, 255, 255, 250>>
      \* a track entry holding the same two elements
      [] form = "negative-inside" ->
            Ebml1(<<174>>, <<128, 128, 129, 8, 255, 255, 255, 250>>)

TracksForms == {"video", "audio-video", "negative", "negative-inside"}

TracksInputs ==
    UNION {{[kind |-> "tracks", form |-> f, length |-> n] : n \in 0..Len(TracksData(f))} :
            f \in TracksForms}

\* a size field holding n, a negative n in two's complement
SizeField(n) == IF n < 0 THEN <<255, 255, 255, 256 + n>> ELSE U32(n)

\* a box of a type that declares the size n, in the size field or, extended,
\* in the 64-bit field after the type; as many bytes of payload as n allows,
\* at most 90
DeclaredBox(type, n, extended) ==
    IF extended
    THEN <<0, 0, 0, 1>> \o type \o (IF n < 0 THEN <<255, 255, 255, 255>> ELSE Zero)
         \o SizeField(n) \o Zeros(IF n > 106 THEN 90 ELSE IF n > 16 THEN n - 16 ELSE 0)
    ELSE SizeField(n) \o type \o Zeros(IF n > 98 THEN 90 ELSE IF n > 8 THEN n - 8 ELSE 0)

S_free == <<102, 114, 101, 101>>

\* top-level boxes: ftyp, the free box, an mdat of four bytes
BoxesFile(d) ==
    Ftyp \o DeclaredBox(S_free, d.declared, d.extended) \o Box(<<109, 100, 97, 116>>, Zero)

BoxesFiles ==
    {[kind |-> "boxes", declared |-> n, extended |-> e] :
        n \in {0 - 16, 2, 4, 7, 8, 12, 15, 16, 24}, e \in BOOLEAN}

\* the payload of a container box: a free box of 12 bytes, a box of a type
\* with a declared size, a free box of 12 bytes; cut after `length` bytes
NestedData(d) ==
    Slice(Box(S_free, Zero) \o DeclaredBox(d.type, d.declared, d.extended)
                            \o Box(S_free, Zero),
          0, d.length)

NestedBoxes ==
    {[kind |-> "nested", type |-> t, declared |-> n, extended |-> e, length |-> l] :
        t \in {S_free, FourCC.stsd, FourCC.avc1, FourCC.hvc1},
        n \in {0 - 16, 0, 4, 8, 12, 16, 20, 86, 90, 200}, e \in BOOLEAN,
        l \in {0, 7, 12, 19, 20, 28, 200}}

\* element ids of one to four bytes, as a Matroska file writes them
ElementIds ==
    {<<236>>, <<66, 130>>, <<84, 176>>, <<42, 215, 177>>, <<26, 69, 223, 163>>,
     <<24, 83, 128, 103>>, <<22, 84, 174, 107>>, <<31, 67, 182, 117>>}

\* buffers a reader is made over: an id followed by a size and a byte, an
\* eight-byte size, a text
ReaderData ==
    {id \o <<129, 0>> : id \in ElementIds}
    \cup {<<1, 0, 0, 0, 0, 0, 0, 5, 0, 0, 0, 0, 0>>, S_webm \o S_webm}

\* a reader and its cursor
Readers ==
    UNION {{[kind |-> "reader", bytes |-> b, offset |-> o] : o \in 0..Len(b)} :
              b \in ReaderData}

MaxRead == 5

\* 32-bit fields of an stts entry: 0, 1, 1000, 0x80000000, 0xffffffff
SttsWords ==
    {Zeros(4), <<0, 0, 0, 1>>, <<0, 0, 3, 232>>, <<128, 0, 0, 0>>, Filler(4)}

SttsEntry == {count \o delta : count \in SttsWords, delta \in SttsWords}

\* stts payloads: version and flags, the entry count, the entries; the count
\* is the number of entries that follow, or a value `declared` beside it
SttsTables ==
    {[kind |-> "stts", declared |-> <<>>, entries |-> e, timescale |-> 30000] :
        e \in {<<>>} \cup {<<a>> : a \in SttsEntry}
               \cup {<<a, b>> : a \in SttsEntry,
                                b \in {<<0, 0, 0, 1>> \o delta : delta \in SttsWords}}}
    \cup {[kind |-> "stts", declared |-> c,
            entries |-> <<<<0, 0, 0, 1, 0, 0, 3, 232>>, <<0, 0, 0, 2, 0, 0, 0, 1>>>>,
            timescale |-> t] :
              c \in {Zeros(4), <<0, 0, 0, 1>>, <<0, 0, 0, 3>>, <<0, 0, 39, 17>>,
                     Filler(4)},
              t \in {0, 30000}}

SttsData(d) ==
    Zeros(4)
    \o (IF d.declared = <<>> THEN U32(Len(d.entries)) ELSE d.declared)
    \o (IF Len(d.entries) = 0 THEN <<>>
        ELSE IF Len(d.entries) = 1 THEN d.entries[1]
        ELSE d.entries[1] \o d.entries[2])

\* sample tables: one run of equal deltas, or two runs
Run(count, delta) == [count |-> count, duration |-> delta]

SampleTables ==
    {<<Run(c, delta)>> : c \in {1, 3}, delta \in {1, 3, 100, 1000, 1001, 1250}}
    \cup {<<Run(1, 1000), Run(1, 1002)>>, <<Run(2, 1), Run(1, 4)>>}

Timescales == {0, 9, 12, 15, 37, 100, 300, 14401, 24000, 24010, 30000, 30013, 180013}

\* what parseMP4TimingInfo hands to calculateFps
TimingInfos ==
    {[kind |-> "timing", null |-> FALSE, timescale |-> t, sampleTable |-> table,
      duration |-> 0, totalSamples |-> totalSamplesOf(table)] :
        t \in Timescales, table \in SampleTables}
    \cup {[kind |-> "timing", null |-> TRUE]}

FileOf(d) ==
    CASE d.kind = "mp4" -> MP4File(d)
      [] d.kind = "boxes" -> BoxesFile(d)
      [] d.kind = "nested" -> NestedData(d)
      [] d.kind = "tracks" -> SubSeq(TracksData(d.form), 1, d.length)
      [] d.kind = "colour" -> SubSeq(ColourData(d.form), 1, d.length)
      [] d.kind = "reader" -> d.bytes
      [] d.kind = "stts" -> SttsData(d)
      [] d.kind = "timing" -> <<>>
      [] d.kind = "mov" -> MOVFile(d)
      [] d.kind = "webm" -> WebMFile(d)
      [] d.kind = "ts" -> TSFile(d)
      [] d.kind = "avi" -> AVIFile(d)
      [] OTHER -> OtherFile(d)

Files == MP4Files \cup MOVFiles \cup WebMFiles \cup TSFiles \cup AVIFiles \cup OtherFiles

ColorInfos ==
    [primaries : {Null, "bt709", "bt2020", "smpte2084"},
     transferCharacteristics : {Null, "bt709", "bt2020", "smpte2084", "hlg", "arib-std-b67"},
     matrixCoefficients : {Null, "bt709", "bt2020", "bt2020nc", "bt2020c", "ictcp"},
     fullRange : {Null, "true"}]

Rotations == {0, 90, 180, 270, 45, 360, 0 - 90}

MaxSide == 3

-----------------------------------------------------------------------------
(* The state machine: one call, from idle to done *)

NoInput == [kind |-> "value"]

Init ==
    /\ pc = "idle"
    /\ op = "none"
    /\ input = NoInput
    /\ arg = <<>>
    /\ ret = Null
    /\ detected = "none"
    /\ ran = "none"

\* HdrDetector.isHdr(colorInfo)
IsHdr ==
    /\ pc = "idle"
    /\ \E colorInfo \in ColorInfos :
        /\ arg' = colorInfo
        /\ ret' = isHdr(colorInfo)
    /\ pc' = "done"
    /\ op' = "isHdr"
    /\ UNCHANGED <<input, detected, ran>>

\* HdrDetector.parseMP4ColorInfo(data)
ParseMP4ColorInfo ==
    /\ pc = "idle"
    /\ \E d \in ColourInputs(MP4ColourForms) :
        /\ input' = d
        /\ arg' = FileOf(d)
        /\ ret' = parseMP4ColorInfo(FileOf(d))
    /\ pc' = "done"
    /\ op' = "parseMP4ColorInfo"
    /\ UNCHANGED <<detected, ran>>

\* HdrDetector.parseWebMColorInfo(data)
ParseWebMColorInfo ==
    /\ pc = "idle"
    /\ \E d \in ColourInputs(WebMColourForms) :
        /\ input' = d
        /\ arg' = FileOf(d)
        /\ ret' = parseWebMColorInfo(FileOf(d))
    /\ pc' = "done"
    /\ op' = "parseWebMColorInfo"
    /\ UNCHANGED <<detected, ran>>

\* reader.read(length)
Read ==
    /\ pc = "idle"
    /\ \E d \in Readers, length \in 0..MaxRead :
        /\ input' = [kind |-> "reader", bytes |-> d.bytes, offset |-> d.offset,
                      length |-> length]
        /\ arg' = FileOf(d)
        /\ ret' = read(d.bytes, d.offset, length)
    /\ pc' = "done"
    /\ op' = "read"
    /\ UNCHANGED <<detected, ran>>

\* reader.readString(length)
ReadString ==
    /\ pc = "idle"
    /\ \E d \in Readers, length \in 0..MaxRead :
        /\ input' = [kind |-> "reader", bytes |-> d.bytes, offset |-> d.offset,
                      length |-> length]
        /\ arg' = FileOf(d)
        /\ ret' = readString(d.bytes, d.offset, length)
    /\ pc' = "done"
    /\ op' = "readString"
    /\ UNCHANGED <<detected, ran>>

\* reader.readUint8(), readUint16(), readUint32(), readUint64()
ReadUint ==
    /\ pc = "idle"
    /\ \E d \in Readers, width \in {1, 2, 4, 8} :
        /\ input' = [kind |-> "reader", bytes |-> d.bytes, offset |-> d.offset,
                      length |-> width]
        /\ arg' = FileOf(d)
        /\ ret' = readUint(d.bytes, d.offset, width)
        /\ op' = CASE width = 1 -> "readUint8" [] width = 2 -> "readUint16"
                    [] width = 4 -> "readUint32" [] width = 8 -> "readUint64"
    /\ pc' = "done"
    /\ UNCHANGED <<detected, ran>>

\* reader.readVint()
ReadVint ==
    /\ pc = "idle"
    /\ \E d \in Readers :
        /\ input' = d
        /\ arg' = FileOf(d)
        /\ ret' = readVint(d.bytes, d.offset)
    /\ pc' = "done"
    /\ op' = "readVint"
    /\ UNCHANGED <<detected, ran>>

\* reader.readEbmlSize()
ReadEbmlSize ==
    /\ pc = "idle"
    /\ \E d \in Readers :
        /\ input' = d
        /\ arg' = FileOf(d)
        /\ ret' = readEbmlSize(d.bytes, d.offset)
    /\ pc' = "done"
    /\ op' = "readEbmlSize"
    /\ UNCHANGED <<detected, ran>>

\* FpsDetector.parseMP4TimingInfo(data, timescale, duration)
ParseMP4TimingInfo ==
    /\ pc = "idle"
    /\ \E d \in SttsTables :
        /\ input' = d
        /\ arg' = FileOf(d)
        /\ ret' = parseMP4TimingInfo(FileOf(d), d.timescale, 0)
    /\ pc' = "done"
    /\ op' = "parseMP4TimingInfo"
    /\ UNCHANGED <<detected, ran>>

\* FpsDetector.calculateFps(timing)
CalculateFps ==
    /\ pc = "idle"
    /\ \E timing \in TimingInfos :
        /\ input' = timing
        /\ arg' = FileOf(timing)
        /\ ret' = calculateFps(timing)
    /\ pc' = "done"
    /\ op' = "calculateFps"
    /\ UNCHANGED <<detected, ran>>

\* getOrientationFromMatrix(rotation, width, height)
GetOrientationFromMatrix ==
    /\ pc = "idle"
    /\ \E rotation \in Rotations, width \in 0..MaxSide, height \in 0..MaxSide :
        /\ arg' = [rotation |-> rotation, width |-> width, height |-> height]
        /\ ret' = getOrientationFromMatrix(rotation, width, height)
    /\ pc' = "done"
    /\ op' = "getOrientationFromMatrix"
    /\ UNCHANGED <<input, detected, ran>>

\* this.parseBoxes(data)
ParseBoxes ==
    /\ pc = "idle"
    /\ \E d \in NestedBoxes :
        /\ input' = d
        /\ arg' = FileOf(d)
        /\ ret' = parseBoxes(FileOf(d))
    /\ pc' = "done"
    /\ op' = "MP4Parser.parseBoxes"
    /\ UNCHANGED <<detected, ran>>

\* new MP4Parser(data).readBoxes(): this.boxes afterwards
ReadBoxes ==
    /\ pc = "idle"
    /\ \E d \in BoxesFiles :
        /\ input' = d
        /\ arg' = FileOf(d)
        /\ ret' = readBoxes(FileOf(d))
    /\ pc' = "done"
    /\ op' = "MP4Parser.readBoxes"
    /\ UNCHANGED <<detected, ran>>

\* this.findVideoTrack(await this.parseBoxes(moov.data)) on the moov box of a file
MP4FindVideoTrack ==
    /\ pc = "idle"
    /\ \E d \in MP4Files :
        /\ input' = d
        /\ arg' = FileOf(d)
        /\ ret' = findVideoTrack(parseBoxes(findBox(readBoxes(FileOf(d)), FourCC.moov).data))
    /\ pc' = "done"
    /\ op' = "MP4Parser.findVideoTrack"
    /\ UNCHANGED <<detected, ran>>

\* new MP4Parser(data).parse()
MP4Parse ==
    /\ pc = "idle"
    /\ \E d \in MP4Files :
        /\ input' = d
        /\ arg' = FileOf(d)
        /\ ret' = MP4Parser_parse(FileOf(d))
    /\ pc' = "done"
    /\ op' = "MP4Parser.parse"
    /\ UNCHANGED <<detected, ran>>

\* new MOVParser(data).parse()
MOVParse ==
    /\ pc = "idle"
    /\ \E d \in MOVFiles :
        /\ input' = d
        /\ arg' = FileOf(d)
        /\ ret' = MOVParser_parse(FileOf(d))
    /\ pc' = "done"
    /\ op' = "MOVParser.parse"
    /\ UNCHANGED <<detected, ran>>

\* new WebMParser(file).findVideoTrack(data), data the payload of Tracks
FindVideoTrack ==
    /\ pc = "idle"
    /\ \E d \in TracksInputs :
        /\ input' = d
        /\ arg' = FileOf(d)
        /\ ret' = WebM_findVideoTrack(FileOf(d))
    /\ pc' = "done"
    /\ op' = "WebMParser.findVideoTrack"
    /\ UNCHANGED <<detected, ran>>

\* new WebMParser(data).parse()
WebMParse ==
    /\ pc = "idle"
    /\ \E d \in WebMFiles :
        /\ input' = d
        /\ arg' = FileOf(d)
        /\ ret' = WebMParser_parse(FileOf(d))
    /\ pc' = "done"
    /\ op' = "WebMParser.parse"
    /\ UNCHANGED <<detected, ran>>

\* new MKVParser(data).parse()
MKVParse ==
    /\ pc = "idle"
    /\ \E d \in WebMFiles :
        /\ input' = d
        /\ arg' = FileOf(d)
        /\ ret' = MKVParser_parse(FileOf(d))
    /\ pc' = "done"
    /\ op' = "MKVParser.parse"
    /\ UNCHANGED <<detected, ran>>

\* new TSParser(data).parse()
TSParse ==
    /\ pc = "idle"
    /\ \E d \in TSFiles :
        /\ input' = d
        /\ arg' = FileOf(d)
        /\ ret' = TSParser_parse(FileOf(d))
    /\ pc' = "done"
    /\ op' = "TSParser.parse"
    /\ UNCHANGED <<detected, ran>>

\* VideoContainerParser.parseContainer(file): the container detected and the
\* parser constructed are recorded beside what the call returns
ParseContainer ==
    /\ pc = "idle"
    /\ \E d \in Files :
        /\ input' = d
        /\ arg' = FileOf(d)
        /\ detected' = detectContainer(Slice(FileOf(d), 0, headerLength))
        /\ ran' = parserOf(detectContainer(Slice(FileOf(d), 0, headerLength)))
        /\ ret' = parseContainer(FileOf(d))
    /\ pc' = "done"
    /\ op' = "parseContainer"

\* getVideoInfo(file)
GetVideoInfo ==
    /\ pc = "idle"
    /\ \E d \in Files :
        /\ input' = d
        /\ arg' = FileOf(d)
        /\ detected' = detectContainer(Slice(FileOf(d), 0, headerLength))
        /\ ran' = parserOf(detectContainer(Slice(FileOf(d), 0, headerLength)))
        /\ ret' = getVideoInfo(FileOf(d))
    /\ pc' = "done"
    /\ op' = "getVideoInfo"

Next ==
    \/ Read
    \/ ReadString
    \/ ReadUint
    \/ ReadVint
    \/ ReadEbmlSize
    \/ ParseMP4TimingInfo
    \/ CalculateFps
    \/ IsHdr
    \/ ParseMP4ColorInfo
    \/ ParseWebMColorInfo
    \/ GetOrientationFromMatrix
    \/ ReadBoxes
    \/ ParseBoxes
    \/ MP4FindVideoTrack
    \/ MP4Parse
    \/ MOVParse
    \/ FindVideoTrack
    \/ WebMParse
    \/ MKVParse
    \/ TSParse
    \/ ParseContainer
    \/ GetVideoInfo

Spec == Init /\ [][Next]_vars

-----------------------------------------------------------------------------
(* Properties.  A property reads the finished call: `op` names the operation,
   `arg` is what it was given, `input` describes how that argument was built,
   `ret` is what came back. *)

Done(operation) == pc = "done" /\ op = operation

Dispatched == pc = "done" /\ op \in {"parseContainer", "getVideoInfo"}

\* the three combinations of the HDR invariant, read off the fields themselves
HdrCombination(c) ==
    \/ /\ c.primaries = "bt2020"
       /\ c.transferCharacteristics = "smpte2084"
       /\ c.matrixCoefficients \in {"bt2020nc", "bt2020c", "ictcp"}
    \/ /\ c.primaries = "bt2020"
       /\ c.transferCharacteristics \in {"hlg", "arib-std-b67"}
    \/ /\ c.transferCharacteristics = "smpte2084"
       /\ c.matrixCoefficients = "ictcp"

\* C1: for every ColorInfo, HdrDetector.isHdr returns true if and only if the
\* fields form the HDR10, the HLG or the Dolby Vision combination; a ColorInfo
\* lacking a field its combination needs never gives true.
C1_IsHdrIffCombination ==
    Done("isHdr") => (ret = TRUE <=> HdrCombination(arg))

\* HLG told from primaries and transfer alone, the matrix coefficients absent
C1_HlgWithoutMatrix ==
    /\ Done("isHdr")
    /\ arg.primaries = "bt2020"
    /\ arg.transferCharacteristics = "hlg"
    /\ arg.matrixCoefficients = Null
    /\ ret = TRUE

\* C2: an MP4 with a moov box, or a WebM/MKV with EBML header, Segment and
\* Tracks, that lists an audio track and no video track is parsed without
\* failure, to width 0, height 0, codec "" and hasAudio true.
C2_AudioOnlyIsParsed ==
    (/\ pc = "done"
     /\ op \in {"MP4Parser.parse", "WebMParser.parse", "MKVParser.parse"}
     /\ input.tracks = "audio"
     /\ (input.kind = "webm" => input.docType \in {"webm", "matroska"}))
    => /\ ret.ok
       /\ ret.width = 0
       /\ ret.height = 0
       /\ ret.codec = <<>>
       /\ ret.hasAudio = TRUE

\* the bytes of `bytes` from `offset` on are those of `signature`
HasMarkerAt(bytes, offset, signature) ==
    /\ offset + Len(signature) <= Len(bytes)
    /\ SubSeq(bytes, offset + 1, offset + Len(signature)) = signature

\* bytes 0, 188 and 376 are the sync byte 0x47
HasSyncPattern(bytes) ==
    /\ Len(bytes) >= 377
    /\ bytes[1] = 71 /\ bytes[189] = 71 /\ bytes[377] = 71

\* the first 32 bytes, or all of them when there are fewer
First32(bytes) == SubSeq(bytes, 1, IF Len(bytes) < 32 THEN Len(bytes) ELSE 32)

\* no signature among the first 32 bytes: no ftyp, moov or RIFF at any offset,
\* no EBML magic at offset 0, and no sync pattern in the input
NoSignature(bytes) ==
    /\ ~HasSyncPattern(bytes)
    /\ ~HasMarkerAt(bytes, 0, <<26, 69, 223, 163>>)
    /\ \A offset \in 0..31 :
        /\ ~HasMarkerAt(First32(bytes), offset, <<102, 116, 121, 112>>)
        /\ ~HasMarkerAt(First32(bytes), offset, <<109, 111, 111, 118>>)
        /\ ~HasMarkerAt(First32(bytes), offset, <<82, 73, 70, 70>>)

UnsupportedContainer == "Failed to parse unknown container: Unsupported container format"

\* C3: an input whose first 32 bytes match no recognised signature is detected
\* as 'unknown' and parseContainer fails with the unsupported-container error;
\* no parser runs and no metadata record is returned.
C3_UnknownIsRejected ==
    (Dispatched /\ NoSignature(arg))
    => /\ detected = "unknown"
       /\ ran = "none"
       /\ ret = Threw(IF op = "getVideoInfo"
                      THEN "Failed to parse video: " \o UnsupportedContainer
                      ELSE UnsupportedContainer)

\* 32 bytes of text, no marker written into them
C3_PlainBytesRejected ==
    /\ Done("parseContainer")
    /\ input.kind = "other" /\ input.marker = "none"
    /\ Len(arg) = 32
    /\ NoSignature(arg)
    /\ detected = "unknown"
    /\ ret = Threw(UnsupportedContainer)

\* C4: an input of at least 377 bytes with 0x47 at offsets 0, 188 and 376 is
\* classified as 'ts' and handed to the TS parser.
C4_SyncPatternIsTS ==
    (Dispatched /\ HasSyncPattern(arg))
    => /\ detected = "ts"
       /\ ran = "TSParser"

\* C5: an input that starts with the EBML magic and carries a DocType element
\* (42 82, one size byte, its payload) is classified as 'mkv' and given to the
\* MKV parser when the DocType is "matroska", and as 'webm' otherwise.
C5_DocTypeDecides ==
    (Dispatched /\ input.kind = "webm" /\ input.docType \in {"matroska", "webm"})
    => IF input.docType = "matroska"
       THEN detected = "mkv" /\ ran = "MKVParser"
       ELSE detected = "webm"

\* C6: an input whose first four bytes are 'RIFF', with form type 'AVI ' and a
\* well-formed hdrl list, is classified as 'avi', parsed by the AVI parser and
\* returned with container 'avi'.
C6_RiffIsParsedAsAVI ==
    (Done("parseContainer") /\ input.kind = "avi")
    => /\ detected = "avi"
       /\ ran = "AVIParser"
       /\ ret.ok
       /\ ret.container = "avi"

NaturalOrientation(width, height) ==
    IF height > width THEN "Portrait" ELSE "Landscape"

\* the orientation table for the four right-angle rotations
OrientationTable(rotation, natural) ==
    CASE rotation = 0 -> (IF natural = "Portrait" THEN "Portrait" ELSE "LandscapeRight")
      [] rotation = 90 -> "Portrait"
      [] rotation = 180 ->
             (IF natural = "Portrait" THEN "PortraitUpsideDown" ELSE "LandscapeLeft")
      [] rotation = 270 -> "PortraitUpsideDown"

Orientations ==
    {"Portrait", "PortraitUpsideDown", "Landscape", "LandscapeRight", "LandscapeLeft"}

\* the descriptor `d` is of a movie whose track header holds a right angle
RightAngle(d) == d.kind \in {"mp4", "mov"} /\ d.rotation \in {0, 90, 180, 270}

\* C7: the orientation is one of the five values and, for rotations 0, 90, 180
\* and 270, the entry of the table for (rotation, naturalOrientation), with
\* naturalOrientation Portrait iff height > width; getVideoInfo reports the
\* same entry for the natural orientation it reports.
C7_OrientationFollowsTable ==
    /\ Done("getOrientationFromMatrix")
        => (/\ ret \in Orientations
            /\ (arg.rotation \in {0, 90, 180, 270}
                 => ret = OrientationTable(arg.rotation,
                                           NaturalOrientation(arg.width, arg.height))))
    /\ (Done("getVideoInfo") /\ ret.ok)
        => (/\ ret.orientation \in Orientations
            /\ ret.naturalOrientation = NaturalOrientation(ret.width, ret.height)
            /\ (RightAngle(input)
                 => ret.orientation = OrientationTable(input.rotation,
                                                       ret.naturalOrientation)))

\* a rotation of 180 on a frame taller than wide
C7_UpsideDownPortrait ==
    /\ Done("getOrientationFromMatrix")
    /\ arg.rotation = 180
    /\ arg.height > arg.width
    /\ ret = "PortraitUpsideDown"

\* the descriptor of a file that carries no colour information
Colourless(d) ==
    \/ d.kind \in {"ts", "avi", "webm"}
    \/ d.kind \in {"mp4", "mov"} /\ d.colour = "none"

\* C8: isHDR of the final result is null whenever the container is TS or AVI
\* or the track carries no colour information, and true or false otherwise.
C8_IsHDRTriState ==
    (Done("getVideoInfo") /\ ret.ok)
    => IF Colourless(input) THEN ret.isHDR = Null
       ELSE ret.isHDR \in {"true", "false"}

\* C9: the duration a container parser reports is finite, not negative and
\* below 2^53, whatever the mdhd timescale and duration or the order of the
\* PCR values.
C9_DurationInRange ==
    (pc = "done" /\ op \in {"MP4Parser.parse", "TSParser.parse"} /\ ret.ok)
    => /\ IsFiniteNum(ret.duration)
       /\ IsNonNegative(ret.duration)
       /\ Below2Pow53(ret.duration)

\* C10: the width and height the MP4 parser reports are not negative, for
\* every 32-bit value of the 16.16 fields of tkhd.
C10_SidesNotNegative ==
    (Done("MP4Parser.parse") /\ ret.ok)
    => /\ ret.width >= 0
       /\ ret.height >= 0

\* the container lists an audio track: a trak with handler 'soun', a TrackEntry
\* of type 2, a PMT entry of an audio stream type
ListsAudio(d) ==
    \/ d.kind \in {"mp4", "mov"} /\ d.tracks \in {"audio", "both", "both-ac3"}
    \/ d.kind = "webm" /\ d.tracks \in {"audio", "audio-first", "both"}
    \/ d.kind = "ts" /\ d.audio

\* C11: in every result hasAudio is true iff audioChannels > 0 or audioCodec is
\* not empty, and iff the container lists at least one audio track.
C11_HasAudioIffListed ==
    (/\ pc = "done"
     /\ op \in {"MP4Parser.parse", "WebMParser.parse", "MKVParser.parse",
                "TSParser.parse"}
     /\ ret.ok)
    => /\ ret.hasAudio <=> ListsAudio(input)
       /\ "audioCodec" \in DOMAIN ret
            => (ret.hasAudio <=> (ret.audioChannels > 0 \/ ret.audioCodec # ""))

\* C12: a valid TS input with no PCR in any packet is parsed without failure
\* and its duration is the estimate fileSize * 8 / 10000000, above 0.
C12_NoPCREstimate ==
    (Done("TSParser.parse") /\ input.tables = "ok"
        /\ input.first = <<>> /\ input.last = <<>>)
    => /\ ret.ok
       /\ IsFiniteNum(ret.duration)
       /\ NumeratorSign(ret.duration) = 1 /\ ret.duration.den > 0
       /\ ret.duration.hi = 0
       /\ ret.duration.lo * 10000000 = Len(arg) * 8 * ret.duration.den

\* C13: a well-formed MOV whose video track carries a clap box and a tapt box
\* with clef reports the clef dimensions as its display dimensions, one with
\* clap alone the clap dimensions; neither fails the parse.
C13_AperturesDecideDisplay ==
    (Done("MOVParser.parse") /\ input.aperture # "none")
    => /\ ret.ok
       /\ ret.displayAspectWidth = (IF input.aperture = "both" THEN 636 ELSE 638)
       /\ ret.displayAspectHeight = (IF input.aperture = "both" THEN 356 ELSE 358)

\* C14: an MKV whose Video element carries PixelWidth W, PixelHeight H and
\* PixelCrop values is reported with width W, height H and display sides
\* W - left - right by H - top - bottom: 1920x1088 with PixelCropBottom 8 is
\* displayed as 1920x1080.
C14_CropGivesDisplay ==
    (Done("MKVParser.parse") /\ input.crop > 0)
    => /\ ret.ok
       /\ ret.width = input.width
       /\ ret.height = input.height
       /\ ret.displayAspectWidth = input.width
       /\ ret.displayAspectHeight = input.height - input.crop

\* the bytes a payload of the form needs for every read of its parser
Needed(form) ==
    CASE form = "nclx" -> 11
      [] form = "nclc" -> 10
      [] form = "mdcv" -> 44
      [] form \in {"dovi", "hvcC"} -> 9
      [] form = "clli" -> 8
      [] OTHER -> 4

\* the descriptor is of a payload on which a read runs past the end
ReadFails(d) ==
    \/ d.form \in MP4ColourForms /\ d.length < Needed(d.form)
    \/ d.form = "coded" /\ d.length \in {7, 8, 9}

\* C15: for every byte sequence, empty and truncated ones too, parseMP4ColorInfo
\* and parseWebMColorInfo return a ColorInfo and never throw; when a read
\* inside fails, what is returned is the default ColorInfo, its four fields
\* absent.
C15_ColourParsersReturn ==
    (pc = "done" /\ op \in {"parseMP4ColorInfo", "parseWebMColorInfo"})
    => /\ DOMAIN ret = DOMAIN getDefaultColorInfo
       /\ ReadFails(input) => ret = getDefaultColorInfo

\* the rate is the quotient bits / seconds, rounded one way or the other
IsContainerRate(rate, bits, seconds) ==
    /\ rate.rounding \in {"floor", "round"}
    /\ rate.bits = bits
    /\ rate.seconds = seconds

\* C16: bitRate is the explicit bit rate of the video track when the parser
\* recovered one (the avgBitrate of a btrt box), otherwise the file size times
\* 8 over the duration, otherwise, with no size or no duration, 0.
C16_BitRatePrecedence ==
    (Done("getVideoInfo") /\ ret.ok)
    => IF input.kind = "mp4" /\ input.btrt
       THEN ret.bitRate = Exactly(1000000)
       ELSE IF input.kind # "mov" /\ Len(arg) # 0 /\ hasDuration(ret)
            THEN IsContainerRate(ret.bitRate, Len(arg) * 8, ret.duration)
            ELSE ret.bitRate = Exactly(0)

\* C17: for every byte sequence given as the Tracks payload, findVideoTrack
\* terminates, with a track, with null or with an error: every round of its
\* outer loop and of its loop over a track entry leaves the reader further
\* forward than it found it, whatever size readVint returns.
C17_FindVideoTrackTerminates ==
    Done("WebMParser.findVideoTrack") => ret.status # "hangs"

\* C18: for every finite input MP4Parser.parse terminates: the walk of the
\* top-level boxes, the walks of nested boxes and the scan of sibling boxes
\* for the handler of a track all move their offset forward on every
\* iteration, for every 32-bit value of a size field.
C18_ParseTerminates ==
    Done("MP4Parser.parse") => ret # NeverReturns

\* the header length of the box the descriptor declares
HeaderLength(d) == IF d.extended THEN 16 ELSE 8

\* C19: in the top-level walk a box whose declared size is below its header
\* length (8, or 16 with an extended size) ends the walk: it is not recorded,
\* no box after it is, and every recorded box has start + headerSize <= end.
C19_UndersizedEndsWalk ==
    Done("MP4Parser.readBoxes")
    => /\ \A i \in 1..Len(ret) : ret[i].start + 8 <= ret[i].end
       /\ input.declared < HeaderLength(input) => Len(ret) = 1
       /\ input.declared >= HeaderLength(input)
            => Len(ret) = 3 /\ ret[2].start + HeaderLength(input) <= ret[2].end


\* C20: MP4Parser.findVideoTrack returns a trak only if the handler type under
\* its mdia/hdlr is 'vide'; for a moov whose traks all have another handler,
\* or that has no trak, with or without an mvex box, it returns no track.
C20_OnlyVideoHandler ==
    Done("MP4Parser.findVideoTrack") =>
        /\ ret.box # NoBox => trakHandlerType(ret.box) = FourCC.vide
        /\ input.tracks \in {"audio", "none"} => ret.box = NoBox


\* the integer a sequence of bytes spells, most significant byte first
RECURSIVE BigEndian(_)
BigEndian(bytes) ==
    IF bytes = <<>> THEN 0
    ELSE BigEndian(SubSeq(bytes, 1, Len(bytes) - 1)) * 256 + bytes[Len(bytes)]

StartsWith(data, prefix) ==
    Len(data) >= Len(prefix) /\ SubSeq(data, 1, Len(prefix)) = prefix

\* C21: one readVint call at a well-formed element id of one to four bytes
\* returns the integer formed by all bytes of the id, length marker included,
\* and leaves the cursor after the id.
C21_IdKeepsMarker ==
    Done("readVint") =>
        \A id \in ElementIds :
            (input.offset = 0 /\ StartsWith(input.bytes, id)) =>
                /\ ~ret.threw
                /\ ret.value = BigEndian(id)
                /\ ret.offset = Len(id)

\* the reader primitives, and the bytes a call needs: its argument, the width of
\* the integer, or the length the first byte of a variable-length integer announces
Primitives ==
    {"read", "readString", "readUint8", "readUint16", "readUint32", "readUint64",
     "readVint", "readEbmlSize"}

Needs(operation, d) ==
    IF operation \in {"readVint", "readEbmlSize"}
    THEN (IF d.offset < Len(d.bytes) THEN VintLength(d.bytes[d.offset + 1]) ELSE 1)
    ELSE d.length

\* C22: a reader primitive that needs more bytes than remain between the cursor
\* and the end of the buffer fails instead of returning a value.
C22_ShortReadFails ==
    (pc = "done" /\ op \in Primitives) =>
        (Needs(op, input) > Len(input.bytes) - input.offset => ret.threw)


\* the entries of an stts table whose count and delta fields are both not 0,
\* in the order of the table
RECURSIVE KeptEntries(_)
KeptEntries(entries) ==
    IF entries = <<>> THEN <<>>
    ELSE (IF SubSeq(Head(entries), 1, 4) = Zeros(4) \/ SubSeq(Head(entries), 5, 8) = Zeros(4)
          THEN <<>>
          ELSE <<[count |-> WordAt(Head(entries), 0),
                  duration |-> WordAt(Head(entries), 4)]>>)
         \o KeptEntries(Tail(entries))

\* C23: a TimingInfo returned by parseMP4TimingInfo has only entries with
\* count > 0 and duration > 0, in the order of the stts table, for all 32-bit
\* values of the count and delta fields.
C23_EntriesPositiveInOrder ==
    (Done("parseMP4TimingInfo") /\ ~ret.null) =>
        /\ \A i \in 1..Len(ret.sampleTable) :
              ret.sampleTable[i].count > 0 /\ ret.sampleTable[i].duration > 0
        /\ input.declared = <<>> => ret.sampleTable = KeptEntries(input.entries)


\* C24: the value calculateFps returns for a computed rate is a fixed point:
\* a track whose computed rate is that value is reported with the same value.
C24_SnapIdempotent ==
    (Done("calculateFps") /\ ret.defined) =>
        fromCalculatedFps(ret.thousandths, 1000) = ret

\* C25: a value returned by calculateFps differs by at most 0.01 from the
\* average rate of the sample table, timescale * totalFrames / totalDuration.
C25_CloseToAverageRate ==
    (Done("calculateFps") /\ ret.defined) =>
        Abs(ret.thousandths * totalDurationOf(input.sampleTable)
            - 1000 * input.timescale * totalFramesOf(input.sampleTable))
          <= 10 * totalDurationOf(input.sampleTable)


\* the child boxes written into the sample entry of an input
EntryBoxes(d) == parseBoxes(ColourBoxes(d.colour))

\* the colour information of the first type of order, from index i on, of which
\* boxes holds a box whose parse yields a field; the default when there is none
RECURSIVE FirstYielding(_, _, _)
FirstYielding(boxes, order, i) ==
    IF i > Len(order) THEN getDefaultColorInfo
    ELSE IF findBox(boxes, order[i]) # NoBox
            /\ parseMP4ColorInfo(findBox(boxes, order[i]).data) # getDefaultColorInfo
         THEN parseMP4ColorInfo(findBox(boxes, order[i]).data)
    ELSE FirstYielding(boxes, order, i + 1)

PriorityOrder ==
    <<FourCC.colr, FourCC.mdcv, FourCC.dvcC, FourCC.dvvC, FourCC.hvcC, FourCC.vpcC,
      FourCC.av1C, FourCC.avcC>>

Selected(d) == FirstYielding(EntryBoxes(d), PriorityOrder, 1)

\* C26: of several colour boxes in a video sample entry, the result carries the
\* colour information of the first, in the order colr, mdcv, dvcC/dvvC, hvcC,
\* vpcC, av1C, avcC, whose parse yields a field; a box that yields none does
\* not stop the later ones, and a later box never replaces an earlier one.
C26_FirstYieldingBoxWins ==
    (Done("MP4Parser.parse") /\ input.tracks \in {"video", "both"}
       /\ findBox(EntryBoxes(input), FourCC.clli) = NoBox) =>
        /\ ret.ok
        /\ ret.colorInfo = Selected(input)

\* maxCLL as the clli box of the sample entry declares it
MaxCLL(d) == Uint16At(findBox(EntryBoxes(d), FourCC.clli).data, 0)

\* C27: when the colour information selected from the other boxes is not HDR
\* and the sample entry holds a clli box declaring maxCLL > 1000 nits, the
\* result is HDR; with maxCLL <= 1000 the selected information is kept.
C27_ContentLightUpgrades ==
    (Done("MP4Parser.parse") /\ input.tracks \in {"video", "both"}
       /\ findBox(EntryBoxes(input), FourCC.clli) # NoBox
       /\ ~isHdr(Selected(input))) =>
        /\ ret.ok
        /\ MaxCLL(input) > 1000 => isHdr(ret.colorInfo)
        /\ MaxCLL(input) <= 1000 => ret.colorInfo = Selected(input)


\* C28: for every video sample entry type, the child boxes placed right after
\* the 78-byte body of the entry are found: the colr box gives the colour
\* information and the btrt box the video bitrate.
C28_EntryChildrenFound ==
    (Done("MP4Parser.parse") /\ input.tracks \in {"video", "both"}
       /\ input.colour = "hdr10" /\ input.btrt) =>
        /\ ret.ok
        /\ ret.colorInfo = hdr10ColorInfo
        /\ ret.videoBitrate = 1000000


\* the words a, b, c, d of the matrix an input writes into its tkhd
MatrixWord(d, k) == SubSeq(MatrixFor(d), 4 * k + 1, 4 * k + 4)

\* the rotation the table of the matrix gives
TableRotation(a, b, c, d) ==
    IF a = Zero /\ d = Zero /\ b = One /\ c = MinusOne THEN 90
    ELSE IF a = Zero /\ d = Zero /\ b = MinusOne /\ c = One THEN 270
    ELSE IF a = MinusOne /\ d = MinusOne THEN 180
    ELSE 0

\* C29: the rotation reported for a tkhd matrix is 90 for a = d = 0, b = +1.0,
\* c = -1.0, 270 for a = d = 0, b = -1.0, c = +1.0, 180 for a = d = -1.0 and 0
\* for every other matrix; it is always one of 0, 90, 180, 270.
C29_RotationFollowsMatrix ==
    (Done("MP4Parser.parse") /\ input.tracks \in {"video", "both", "both-ac3"}
       /\ ret.ok) =>
        /\ ret.rotation \in {0, 90, 180, 270}
        /\ ret.rotation = TableRotation(MatrixWord(input, 0), MatrixWord(input, 1),
                                        MatrixWord(input, 3), MatrixWord(input, 4))

\* a matrix with b = -1.0 and c = +1.0 is reported as 270
C29_QuarterTurnBack ==
    /\ Done("MP4Parser.parse")
    /\ MatrixWord(input, 1) = MinusOne
    /\ MatrixWord(input, 3) = One
    /\ ret.ok
    /\ ret.rotation = 270


\* C30: the list the nested walk returns is well-formed: the first box starts
\* at offset 0, each following box starts where the previous one ends, every
\* box has start + headerSize <= end <= data.length, and its payload is what
\* lies between its header and its end.
C30_NestedWalkWellFormed ==
    Done("MP4Parser.parseBoxes") =>
        \A i \in 1..Len(ret) :
            /\ ret[i].start = (IF i = 1 THEN 0 ELSE ret[i - 1].end)
            /\ ret[i].start + 8 <= ret[i].end
            /\ ret[i].end <= Len(arg)
            /\ ret[i].end - ret[i].start - Len(ret[i].data) \in {8, 16, 86}
            /\ ret[i].data = SubSeq(arg, ret[i].end - Len(ret[i].data) + 1, ret[i].end)

\* a sample entry of 90 bytes between two boxes: all three are recorded
C30_EntryBetweenBoxes ==
    /\ Done("MP4Parser.parseBoxes")
    /\ input.type = FourCC.avc1
    /\ input.declared = 90
    /\ Len(ret) = 3
    /\ ret[2].end - ret[2].start = 90
    /\ Len(ret[2].data) = 4

=============================================================================
